---------------------------- MODULE Spec2Model ----------------------------
(***************************************************************************)
(* A model of MathSeek's recognition pipeline (src-tauri/src):             *)
(*   - ApiClient: the retrying HTTP client (api_client.rs),                *)
(*   - RecognitionEngine: the recognize_content pipeline                   *)
(*     (recognition_engine.rs),                                            *)
(*   - ExportManager: the document exports (export_manager.rs),            *)
(*   - ConfigManager: the stored configuration (config_manager.rs),        *)
(*   - the data-model validation (lib.rs).                                 *)
(*                                                                         *)
(* Conventions.                                                            *)
(*   Strings the code scans or measures (LaTeX strings, body text, the     *)
(*   rendered exports) are sequences of one-character strings; a string    *)
(*   in UTF-8 is a sequence of bytes, the continuation bytes of a          *)
(*   multi-byte character being the elements of ContinuationBytes.         *)
(*   An error message is a sequence whose elements are the characters of   *)
(*   its variable parts (status code, response body, server text) and its  *)
(*   literal parts, each kept whole.                                       *)
(*   Option<T> is a sequence of length 0 (None) or 1 (Some).               *)
(*   Result<T, E> is [tag |-> "Ok" | "Err", v |-> ...].                    *)
(*   An f32 confidence is an integer number of hundredths (0.5 is 50).     *)
(*   FormulaResult.timestamp is not modelled: no modelled code reads it.   *)
(***************************************************************************)
EXTENDS Integers, Sequences, FiniteSets, TLC

VARIABLES
  entry,        \* the public operation the caller invoked
  hint,         \* recognize_content's input_type argument, an Option<InputType>
  image,        \* the image bytes, by the properties the image library reports
  apiConfig,    \* ApiClient.config
  recConfig,    \* RecognitionEngine.config
  appConfig,    \* ExportManager.config
  exportConfig, \* export_formula_result's export_config argument
  arg,          \* the FormulaResult argument of a call that takes one, an Option
  pc,           \* position of recognize_content
  detected_type,\* recognize_content's local detected_type, an Option
  result,       \* recognize_content's local `mut result`, an Option<FormulaResult>
  outcome,      \* what recognize_content returned, an Option<Result>
  trace,        \* history: the pipeline steps executed so far, in order
  failedStep,   \* history: the step that returned the error, an Option
  cpc,          \* position of the client call (make_request_with_retry)
  reqType,      \* the client call: "SingleFormula" | "Document" | "analyze"
  attempt,      \* make_request_with_retry's loop variable
  last_error,   \* make_request_with_retry's local last_error, an Option
  clientResult, \* what the client call returned, an Option<Result>
  nCalls,       \* history: number of client calls started
  nAttempts,    \* history: number of make_single_request calls of this client call
  nOk,          \* history: number of attempts that returned Ok
  sleeps,       \* history: the durations slept by this client call, in order (ms)
  lastOutcome,  \* history: what the transport did in the latest attempt, an Option
  transport,    \* ApiClient.client by what it was built with: its timeout in seconds
  calls,        \* calls running side by side on one client: per call its position,
                \* its locals and, as history, what it read and what it met
  stored        \* ConfigManager's config.json: an Option of the EncryptedAppConfig
                \* it holds

vars == <<entry, hint, image, apiConfig, recConfig, appConfig, exportConfig, arg, pc, detected_type, result,
          outcome, trace, failedStep, cpc, reqType, attempt, last_error,
          clientResult, nCalls, nAttempts, nOk, sleeps, lastOutcome, transport, calls, stored>>

engineVars == <<pc, detected_type, result, outcome, trace, failedStep>>
clientVars == <<cpc, reqType, attempt, last_error, clientResult, nCalls,
                nAttempts, nOk, sleeps, lastOutcome>>
inputVars == <<entry, hint, image, apiConfig, recConfig, appConfig, exportConfig, arg>>
sharedVars == <<transport, calls, stored>>

----------------------------------------------------------------------------
(* Bounds of the model *)

\* largest max_retries a directly constructed ApiConfig takes in the model
MaxRetriesBound == 3

----------------------------------------------------------------------------
(* Generic helpers *)

None == <<>>
Some(x) == <<x>>
Ok(x) == [tag |-> "Ok", v |-> x]
Err(e) == [tag |-> "Err", v |-> e]

\* str.contains(pat)
Contains(s, pat) ==
  \E i \in 0..(Len(s) - Len(pat)) : SubSeq(s, i + 1, i + Len(pat)) = pat

DigitChars == <<"0", "1", "2", "3", "4", "5", "6", "7", "8", "9">>

\* Display of an unsigned integer
RECURSIVE Dec(_)
Dec(n) == IF n < 10 THEN <<DigitChars[n + 1]>>
          ELSE Dec(n \div 10) \o <<DigitChars[(n % 10) + 1]>>

\* {:.2} of a confidence given in hundredths
ConfidenceDisplay(c) ==
  LET a == IF c < 0 THEN 0 - c ELSE c IN
    (IF c < 0 THEN <<"-">> ELSE <<>>) \o Dec(a \div 100) \o <<".">>
      \o <<DigitChars[((a \div 10) % 10) + 1], DigitChars[(a % 10) + 1]>>

----------------------------------------------------------------------------
(* error.rs *)

ApiError(msg) == [kind |-> "ApiError", msg |-> msg]
ImageError(msg) == [kind |-> "ImageError", msg |-> msg]
NetworkError(msg) == [kind |-> "NetworkError", msg |-> msg]
SerializationError(msg) == [kind |-> "SerializationError", msg |-> msg]

----------------------------------------------------------------------------
(* lib.rs: the data model *)

FormulaBlock(latex, position, is_inline) ==
  [latex |-> latex, position |-> position, is_inline |-> is_inline]

\* DocumentSection::new
NewSection(heading, text) == [heading |-> heading, text |-> text, formulas |-> <<>>]

Section(heading, text, formulas) ==
  [heading |-> heading, text |-> text, formulas |-> formulas]

\* DocumentContent::new followed by add_section for each section
Document(title, sections) == [title |-> title, sections |-> sections]

SingleFormulaContent(latex) == [kind |-> "SingleFormula", latex |-> latex, doc |-> None]
DocumentContent(doc) == [kind |-> "Document", latex |-> None, doc |-> Some(doc)]

FormulaResult(latex, confidence, input_type, content) ==
  [latex |-> latex, confidence |-> confidence, input_type |-> input_type,
   content |-> content]

\* FormulaResult::new_single_formula
new_single_formula(latex, confidence) ==
  FormulaResult(latex, confidence, "SingleFormula", SingleFormulaContent(latex))

\* FormulaResult::validate
FormulaResultValidate(r) ==
  IF r.latex = <<>>
    THEN Err(ApiError(<<"LaTeX content cannot be empty">>))
  ELSE IF r.confidence < 0 \/ r.confidence > 100
    THEN Err(ApiError(<<"Confidence must be between 0.0 and 1.0">>))
  ELSE Ok(<<>>)

\* a variant of SectionValidate that asks for body text
SectionValidateTextOnly(sec) ==
  IF sec.text = <<>>
    THEN Err(ApiError(<<"Section must have either text or formulas">>))
    ELSE Ok(<<>>)

\* DocumentSection::validate
SectionValidate(sec) ==
  IF sec.text = <<>> /\ sec.formulas = <<>>
    THEN Err(ApiError(<<"Section must have either text or formulas">>))
    ELSE Ok(<<>>)

\* DocumentContent::validate
DocumentValidate(doc) ==
  IF doc.sections = <<>>
    THEN Err(ApiError(<<"Document must have at least one section">>))
  ELSE IF \E i \in 1..Len(doc.sections) : SectionValidate(doc.sections[i]).tag = "Err"
    THEN SectionValidate(doc.sections[
           CHOOSE i \in 1..Len(doc.sections) :
             /\ SectionValidate(doc.sections[i]).tag = "Err"
             /\ \A j \in 1..(i - 1) : SectionValidate(doc.sections[j]).tag = "Ok"])
  ELSE Ok(<<>>)

----------------------------------------------------------------------------
(* What the recognition service can send *)

LatexX == <<"x">>

\* the latex field of an envelope
ResponseLatex == {None, Some(<<>>), Some(LatexX), Some(<<"{", "x">>), Some(<<" ">>)}

\* the confidence field of an envelope, in hundredths
ResponseConfidence == {None, Some(0 - 10), Some(49), Some(50), Some(100), Some(150)}

TextAb == <<"a", "b">>

\* documents a content field can decode to: without sections, with text only,
\* with an empty section, with a fragment and no text, with an unbalanced
\* fragment, with a fragment placed beyond the text, with two sections without
\* text
ResponseDocuments ==
  {Document(None, <<>>),
   Document(None, <<Section(None, TextAb, <<>>)>>),
   Document(None, <<Section(None, <<>>, <<>>)>>),
   Document(None, <<Section(None, <<>>, <<FormulaBlock(LatexX, 0, TRUE)>>)>>),
   Document(None, <<Section(None, TextAb, <<FormulaBlock(<<"{", "x">>, 1, TRUE)>>)>>),
   Document(None, <<Section(None, TextAb, <<FormulaBlock(LatexX, 9, FALSE)>>)>>),
   Document(Some(TextAb),
            <<Section(None, <<>>, <<FormulaBlock(LatexX, 0, TRUE)>>),
              Section(Some(TextAb), <<>>, <<FormulaBlock(LatexX, 0, FALSE)>>)>>)}

\* the content field of an envelope: a JSON value that decodes as a
\* DocumentContent or does not
ResponseContent ==
  {None, Some([decodes |-> FALSE, doc |-> Document(None, <<>>)])}
    \cup {Some([decodes |-> TRUE, doc |-> d]) : d \in ResponseDocuments}

\* a 2xx JSON body with success: true, as sent on the wire
Envelope(latex, confidence, content, analysis) ==
  [success |-> TRUE, latex |-> latex, confidence |-> confidence,
   content |-> content, error |-> None, analysis |-> analysis]

\* the bodies a /recognize request is answered with: parse_recognition_response
\* reads the content field for Document requests only
RecognizeBodies(input_type) ==
  {Envelope(l, c, k, <<>>) :
     l \in ResponseLatex, c \in ResponseConfidence,
     k \in IF input_type = "Document" THEN ResponseContent
           ELSE {None, Some([decodes |-> TRUE,
                             doc |-> Document(None, <<Section(None, TextAb, <<>>)>>)])}}

\* the bodies an /analyze request is answered with; analysis holds the fields
\* formula_type, description, usage and examples when the body has them
AnalyzeBodies ==
  {Envelope(None, None, None, a) :
     a \in {<<>>,
            <<[formula_type |-> Some(<<"Algebra">>), description |-> Some(LatexX),
               usage |-> Some(TextAb), examples |-> Some(<<LatexX>>)]>>}}

\* what one request attempt can meet
Outcome(kind, status, text, body) ==
  [kind |-> kind, status |-> status, text |-> text, body |-> body]

\* the failures of an attempt; Texts are the texts a server or the transport
\* layer can put in a body or an error
FailureOutcomes ==
  LET Texts == {<<>>, <<"x">>, <<"e", "4", "0", "1">>} IN
    {Outcome("timeout", 0, None, None)}
      \cup {Outcome("transport", 0, Some(t), None) : t \in Texts}
      \cup {Outcome("http", s, Some(t), None) : s \in {400, 401, 403, 404, 500}, t \in Texts}
      \cup {Outcome("malformed", 200, Some(t), None) : t \in Texts}
      \cup {Outcome("rejected", 200, t, None) : t \in {None} \cup {Some(x) : x \in Texts}}

SuccessOutcomes(rt) ==
  {Outcome("ok", 200, None, Some(b)) :
     b \in IF rt = "analyze" THEN AnalyzeBodies ELSE RecognizeBodies(rt)}

----------------------------------------------------------------------------
(* api_client.rs: ApiClient *)

\* impl Default for ApiConfig; From<&AppConfig> for ApiConfig sets the same
\* timeout, retry count and delay
DefaultTimeoutSeconds == 30
DefaultMaxRetries == 3
DefaultRetryDelayMs == 1000

ApiConfig(endpoint, api_key, timeout_seconds, max_retries, retry_delay_ms) ==
  [endpoint |-> endpoint, api_key |-> api_key, timeout_seconds |-> timeout_seconds,
   max_retries |-> max_retries, retry_delay_ms |-> retry_delay_ms]

\* the endpoint and the key come from the application's configuration
DefaultApiConfig ==
  ApiConfig(<<"u">>, <<"k">>, DefaultTimeoutSeconds, DefaultMaxRetries, DefaultRetryDelayMs)

\* Display of response.status(): the code, a space, the canonical reason phrase
StatusDisplay(status) ==
  Dec(status)
    \o CASE status = 400 -> <<" ", "Bad Request">>
          [] status = 401 -> <<" ", "Unauthorized">>
          [] status = 403 -> <<" ", "Forbidden">>
          [] status = 404 -> <<" ", "Not Found">>
          [] status = 500 -> <<" ", "Internal Server Error">>
          [] OTHER -> <<" ">>

\* serde's decoding of a body into RecognitionResponse: the five declared fields
\* are kept, any other field of the body is ignored
DecodeRecognitionResponse(body) ==
  [success |-> body.success, latex |-> body.latex, confidence |-> body.confidence,
   content |-> body.content, error |-> body.error]

\* ApiClient::make_single_request, by what the transport did
make_single_request(o) ==
  CASE o.kind = "timeout" -> Err(NetworkError(<<"Request timeout">>))
    [] o.kind = "transport" -> Err(NetworkError(<<"Request failed: ">> \o o.text[1]))
    [] o.kind = "http" ->
         Err(ApiError(<<"API request failed with status: ">> \o StatusDisplay(o.status)
                        \o <<" - ">> \o o.text[1]))
    [] o.kind = "malformed" -> Err(SerializationError(<<"Failed to parse response: ">> \o o.text[1]))
    [] o.kind = "rejected" ->
         Err(ApiError(IF o.text = None THEN <<"Unknown API error">> ELSE o.text[1]))
    [] o.kind = "ok" -> Ok(DecodeRecognitionResponse(o.body[1]))

\* a variant of document_content that never reads the content field
document_content_ignoring_payload(response, latex) ==
  Document(None, <<NewSection(None, latex)>>)

\* the InputType::Document arm of parse_recognition_response: the decoded
\* content field, or a document of one section around the latex string
document_content(response, latex) ==
  IF response.content # None /\ response.content[1].decodes
    THEN response.content[1].doc
    ELSE Document(None, <<NewSection(None, latex)>>)

\* a variant of parse_recognition_response whose content follows the shape of
\* the response and not the requested input type
parse_recognition_response_by_shape(response, input_type) ==
  IF response.latex = None
    THEN Err(ApiError(<<"No LaTeX content in response">>))
  ELSE
    LET latex == response.latex[1]
        confidence == IF response.confidence = None THEN 0 ELSE response.confidence[1]
        content ==
          IF response.content # None /\ response.content[1].decodes
            THEN DocumentContent(response.content[1].doc)
            ELSE SingleFormulaContent(latex)
        res == FormulaResult(latex, confidence, input_type, content)
    IN IF FormulaResultValidate(res).tag = "Err"
         THEN FormulaResultValidate(res)
         ELSE Ok(res)

\* ApiClient::parse_recognition_response
parse_recognition_response(response, input_type) ==
  IF response.latex = None
    THEN Err(ApiError(<<"No LaTeX content in response">>))
  ELSE
    LET latex == response.latex[1]
        confidence == IF response.confidence = None THEN 0 ELSE response.confidence[1]
        content ==
          IF input_type = "SingleFormula" THEN SingleFormulaContent(latex)
          ELSE DocumentContent(document_content(response, latex))
        res == FormulaResult(latex, confidence, input_type, content)
    IN IF FormulaResultValidate(res).tag = "Err"
         THEN FormulaResultValidate(res)
         ELSE Ok(res)

\* ApiClient::parse_analysis_response: the RecognitionResponse is serialized and
\* read back as an AnalysisResponse; of AnalysisResponse's fields the
\* serialization carries success and error only
parse_analysis_response(response) ==
  LET analysis_response ==
        [success |-> response.success, formula_type |-> None, description |-> None,
         usage |-> None, examples |-> None, error |-> response.error]
  IN IF ~analysis_response.success
       THEN Err(ApiError(IF analysis_response.error = None
                           THEN <<"Analysis failed">>
                           ELSE analysis_response.error[1]))
       ELSE Ok([formula_type |-> IF analysis_response.formula_type = None
                                   THEN <<"Unknown">>
                                   ELSE analysis_response.formula_type[1],
                description |-> IF analysis_response.description = None
                                  THEN <<"No description available">>
                                  ELSE analysis_response.description[1],
                usage |-> IF analysis_response.usage = None
                            THEN <<"No usage information available">>
                            ELSE analysis_response.usage[1],
                examples |-> IF analysis_response.examples = None
                               THEN <<>>
                               ELSE analysis_response.examples[1]])

\* recognize_image and analyze_formula after make_request_with_retry returned Ok
ParseFor(rt, response) ==
  IF rt = "analyze" THEN parse_analysis_response(response)
                    ELSE parse_recognition_response(response, rt)

\* a variant of NoRetry that forgets the 403 and 400 tests
NoRetryOnly401(e) == e.kind = "ApiError" /\ Contains(e.msg, <<"4", "0", "1">>)

\* a variant of NoRetry that reads the message of an error of any kind
NoRetryAnyKind(e) ==
  \/ Contains(e.msg, <<"4", "0", "1">>)
  \/ Contains(e.msg, <<"4", "0", "3">>)
  \/ Contains(e.msg, <<"4", "0", "0">>)

\* the test of make_request_with_retry that ends the loop early
NoRetry(e) ==
  /\ e.kind = "ApiError"
  /\ \/ Contains(e.msg, <<"4", "0", "1">>)
     \/ Contains(e.msg, <<"4", "0", "3">>)
     \/ Contains(e.msg, <<"4", "0", "0">>)

\* a variant of LastAttemptIndex: the range 0..max_retries without its end
LastAttemptIndexExclusive(cfg) == cfg.max_retries - 1

\* a variant of LastAttemptIndex: a range one iteration longer
LastAttemptIndexOneMore(cfg) == cfg.max_retries + 1

\* the last value of make_request_with_retry's range 0..=max_retries
LastAttemptIndex(cfg) == cfg.max_retries

\* a variant of SleepDelay: a constant delay
SleepDelayConstant(cfg, att) == cfg.retry_delay_ms

\* the argument of the sleep before the attempt with the given index
SleepDelay(cfg, att) == cfg.retry_delay_ms * att

\* the error make_request_with_retry returns after the loop
LoopError(le) == IF le = None THEN NetworkError(<<"Max retries exceeded">>) ELSE le[1]

\* the start of make_request_with_retry, from recognize_image (rt an InputType)
\* or analyze_formula (rt = "analyze"); attempt 0 has no sleep; on an empty
\* range the loop is skipped and the error after the loop is returned
BeginClientCall(rt) ==
  /\ reqType' = rt
  /\ attempt' = 0
  /\ last_error' = None
  /\ IF 0 <= LastAttemptIndex(apiConfig)
       THEN cpc' = "request" /\ clientResult' = None
       ELSE cpc' = "done" /\ clientResult' = Some(Err(LoopError(None)))
  /\ nCalls' = nCalls + 1
  /\ nAttempts' = 0
  /\ nOk' = 0
  /\ sleeps' = <<>>
  /\ lastOutcome' = None

\* the sleep that opens every iteration but the first
Sleep ==
  /\ cpc = "sleep"
  /\ sleeps' = Append(sleeps, SleepDelay(apiConfig, attempt))
  /\ cpc' = "request"
  /\ UNCHANGED <<reqType, attempt, last_error, clientResult, nCalls, nAttempts, nOk,
                 lastOutcome>>
  /\ UNCHANGED <<inputVars, engineVars>>
  /\ UNCHANGED sharedVars

\* one make_single_request and the match on its result; on Ok the caller's
\* parse of the response; on the loop's end the return of the error
Request ==
  /\ cpc = "request"
  /\ \E o \in FailureOutcomes \cup SuccessOutcomes(reqType) :
       LET r == make_single_request(o) IN
         /\ nAttempts' = nAttempts + 1
         /\ lastOutcome' = Some(o)
         /\ IF r.tag = "Ok"
              THEN /\ nOk' = nOk + 1
                   /\ clientResult' = Some(ParseFor(reqType, r.v))
                   /\ cpc' = "done"
                   /\ attempt' = 0
                   /\ last_error' = None
              ELSE /\ nOk' = nOk
                   /\ IF NoRetry(r.v) \/ attempt >= LastAttemptIndex(apiConfig)
                        THEN /\ clientResult' = Some(Err(LoopError(Some(r.v))))
                             /\ cpc' = "done"
                             /\ attempt' = 0
                             /\ last_error' = None
                        ELSE /\ clientResult' = None
                             /\ cpc' = "sleep"
                             /\ attempt' = attempt + 1
                             /\ last_error' = Some(r.v)
  /\ UNCHANGED <<reqType, nCalls, sleeps>>
  /\ UNCHANGED <<inputVars, engineVars>>
  /\ UNCHANGED sharedVars

----------------------------------------------------------------------------
(* image_processor.rs: ImageProcessor, on the properties of the bytes *)

MinDimension == 50
MaxDimension == 4096
MaxFileSize == 10485760

Image(empty, decodes, width, height, len, encodes, nFormula, nText) ==
  [empty |-> empty, decodes |-> decodes, width |-> width, height |-> height,
   len |-> len, encodes |-> encodes, nFormula |-> nFormula, nText |-> nText]

\* ImageProcessor::validate_image
validate_image(img) == ~img.empty /\ img.decodes

\* ImageProcessor::get_image_dimensions
get_image_dimensions(img) ==
  IF img.decodes THEN Ok(<<img.width, img.height>>)
                 ELSE Err(ImageError(<<"Failed to load image">>))

\* ImageProcessor::is_image_suitable_for_processing
is_image_suitable_for_processing(img) ==
  LET dims == get_image_dimensions(img) IN
    IF dims.tag = "Err" THEN dims
    ELSE IF dims.v[1] < MinDimension \/ dims.v[2] < MinDimension THEN Ok(FALSE)
    ELSE IF dims.v[1] > MaxDimension \/ dims.v[2] > MaxDimension THEN Ok(FALSE)
    ELSE IF img.len > MaxFileSize THEN Ok(FALSE)
    ELSE Ok(TRUE)

\* ImageProcessor::preprocess_image: Ok stands for the re-encoded bytes
preprocess_image(img) ==
  IF ~img.decodes THEN Err(ImageError(<<"Failed to load image">>))
  ELSE IF ~img.encodes THEN Err(ImageError(<<"Failed to encode processed image">>))
  ELSE Ok(<<>>)

\* ImageProcessor::analyze_image_layout: the two summary flags and the lengths
\* of the two region lists
analyze_image_layout(img) ==
  IF ~img.decodes THEN Err(ImageError(<<"Failed to load image for analysis">>))
  ELSE Ok([has_multiple_formulas |-> img.nFormula > 1,
           has_text_content |-> img.nText # 0,
           formula_regions |-> img.nFormula,
           text_regions |-> img.nText])

\* ImageProcessor::detect_input_type
detect_input_type(img) ==
  LET layout == analyze_image_layout(img) IN
    IF layout.tag = "Err" THEN layout
    ELSE IF layout.v.has_multiple_formulas \/ layout.v.has_text_content
      THEN Ok("Document")
      ELSE Ok("SingleFormula")

----------------------------------------------------------------------------
(* recognition_engine.rs: RecognitionEngine *)

\* impl Default for RecognitionConfig
DefaultConfidenceThreshold == 50

RecognitionConfig(threshold, preprocessing, auto_detection, validation) ==
  [confidence_threshold |-> threshold, preprocessing_enabled |-> preprocessing,
   auto_type_detection |-> auto_detection, validation_enabled |-> validation]

DefaultRecognitionConfig ==
  RecognitionConfig(DefaultConfidenceThreshold, TRUE, TRUE, TRUE)

\* str::trim_start_matches for a set of characters
RECURSIVE TrimStart(_, _)
TrimStart(s, chars) ==
  IF s # <<>> /\ Head(s) \in chars THEN TrimStart(Tail(s), chars) ELSE s

\* str::trim_end_matches for a set of characters
RECURSIVE TrimEnd(_, _)
TrimEnd(s, chars) ==
  IF s # <<>> /\ s[Len(s)] \in chars THEN TrimEnd(SubSeq(s, 1, Len(s) - 1), chars) ELSE s

\* str::trim
Trim(s) == TrimEnd(TrimStart(s, {" ", "\n", "\t"}), {" ", "\n", "\t"})

\* str::starts_with
StartsWith(s, pat) == Len(s) >= Len(pat) /\ SubSeq(s, 1, Len(pat)) = pat

\* a variant of SyntaxScan that compares the braces at the end only
RECURSIVE SyntaxScanEndOnly(_, _, _, _)
SyntaxScanEndOnly(s, i, brace_count, in_math_mode) ==
  IF i > Len(s) THEN brace_count = 0 /\ ~in_math_mode
  ELSE IF s[i] = "{" THEN SyntaxScanEndOnly(s, i + 1, brace_count + 1, in_math_mode)
  ELSE IF s[i] = "}" THEN SyntaxScanEndOnly(s, i + 1, brace_count - 1, in_math_mode)
  ELSE IF s[i] = "$" THEN SyntaxScanEndOnly(s, i + 1, brace_count, ~in_math_mode)
  ELSE SyntaxScanEndOnly(s, i + 1, brace_count, in_math_mode)

\* the scan of is_valid_latex_syntax from character i on, with the brace count
\* and the math-mode flag reached so far
RECURSIVE SyntaxScan(_, _, _, _)
SyntaxScan(s, i, brace_count, in_math_mode) ==
  IF i > Len(s) THEN brace_count = 0 /\ ~in_math_mode
  ELSE IF s[i] = "{" THEN SyntaxScan(s, i + 1, brace_count + 1, in_math_mode)
  ELSE IF s[i] = "}"
    THEN IF brace_count - 1 < 0 THEN FALSE
         ELSE SyntaxScan(s, i + 1, brace_count - 1, in_math_mode)
  ELSE IF s[i] = "$" THEN SyntaxScan(s, i + 1, brace_count, ~in_math_mode)
  ELSE SyntaxScan(s, i + 1, brace_count, in_math_mode)

\* RecognitionEngine::is_valid_latex_syntax
is_valid_latex_syntax(latex) == SyntaxScan(Trim(latex), 1, 0, FALSE)

\* RecognitionEngine::validate_single_formula
validate_single_formula(latex) ==
  IF Trim(latex) = <<>> THEN Err(ApiError(<<"Empty formula content">>))
  ELSE IF ~is_valid_latex_syntax(latex)
    THEN Err(ApiError(<<"Invalid LaTeX syntax detected">>))
  ELSE Ok(<<>>)

\* all fragments of a document, in the order the nested loops visit them
RECURSIVE AllFormulas(_)
AllFormulas(sections) ==
  IF sections = <<>> THEN <<>>
  ELSE Head(sections).formulas \o AllFormulas(Tail(sections))

\* RecognitionEngine::validate_document_content
validate_document_content(doc) ==
  IF DocumentValidate(doc).tag = "Err" THEN DocumentValidate(doc)
  ELSE LET fs == AllFormulas(doc.sections)
           bad == {i \in 1..Len(fs) : ~is_valid_latex_syntax(fs[i].latex)}
       IN IF bad = {} THEN Ok(<<>>)
          ELSE LET first == CHOOSE i \in bad : \A j \in bad : i <= j
               IN Err(ApiError(<<"Invalid LaTeX syntax in formula: ">> \o fs[first].latex))

\* RecognitionEngine::validate_recognition_result: the error, or the result as
\* the function leaves it
validate_recognition_result(res) ==
  IF FormulaResultValidate(res).tag = "Err" THEN FormulaResultValidate(res)
  ELSE
    LET extra == IF res.content.kind = "SingleFormula"
                   THEN validate_single_formula(res.content.latex)
                   ELSE validate_document_content(res.content.doc[1])
    IN IF extra.tag = "Err" THEN extra
       ELSE IF res.confidence > 100 THEN Ok([res EXCEPT !.confidence = 100])
       ELSE IF res.confidence < 0 THEN Ok([res EXCEPT !.confidence = 0])
       ELSE Ok(res)

\* a variant of ExtractFrom that looks for a fragment in every section before
\* it looks at any text
RECURSIVE ExtractFragmentsFirst(_)
ExtractFragmentsFirst(sections) ==
  LET WithFragment == {k \in 1..Len(sections) : sections[k].formulas # <<>>} IN
    IF WithFragment # {}
      THEN Ok(sections[CHOOSE k \in WithFragment : \A j \in WithFragment : k <= j]
                .formulas[1].latex)
    ELSE IF sections = <<>> THEN Err(ApiError(<<"No formula found in document">>))
    ELSE IF StartsWith(Trim(Head(sections).text), <<"$">>)
            \/ StartsWith(Trim(Head(sections).text), <<"\\", "[">>)
      THEN Ok(Head(sections).text)
    ELSE ExtractFragmentsFirst(Tail(sections))

\* the first section, in order, that has a fragment or whose trimmed text
\* starts with "$" or "\[": the loop of extract_single_formula_from_document
RECURSIVE ExtractFrom(_)
ExtractFrom(sections) ==
  IF sections = <<>> THEN Err(ApiError(<<"No formula found in document">>))
  ELSE LET section == Head(sections) IN
    IF section.formulas # <<>> THEN Ok(section.formulas[1].latex)
    ELSE IF StartsWith(Trim(section.text), <<"$">>)
            \/ StartsWith(Trim(section.text), <<"\\", "[">>)
      THEN Ok(section.text)
    ELSE ExtractFrom(Tail(sections))

\* RecognitionEngine::extract_single_formula_from_document
extract_single_formula_from_document(doc) == ExtractFrom(doc.sections)

\* the match of recognize_single_formula on the client's result
SingleFormulaResult(res) ==
  IF res.content.kind = "SingleFormula" THEN Ok(res)
  ELSE LET latex == extract_single_formula_from_document(res.content.doc[1]) IN
         IF latex.tag = "Err" THEN latex
         ELSE Ok(new_single_formula(latex.v, res.confidence))

\* a variant of enhance_document_with_layout whose default section has no text
enhance_document_with_empty_placeholder(doc, layout) ==
  LET sections == IF doc.sections = <<>>
                    THEN <<NewSection(None, <<>>)>>
                    ELSE doc.sections
      region_info ==
        <<"D", "e", "t", "e", "c", "t", "e", "d", " ">> \o Dec(layout.formula_regions)
          \o <<" ", "f", "o", "r", "m", "u", "l", "a", " ", "r", "e", "g", "i", "o", "n",
               "s", " ", "a", "n", "d", " ">>
          \o Dec(layout.text_regions)
          \o <<" ", "t", "e", "x", "t", " ", "r", "e", "g", "i", "o", "n", "s">>
  IN [doc EXCEPT !.sections =
        IF sections[1].text = <<>>
          THEN [sections EXCEPT ![1].text = region_info]
          ELSE sections]

\* RecognitionEngine::enhance_document_with_layout
enhance_document_with_layout(doc, layout) ==
  LET sections == IF doc.sections = <<>>
                    THEN <<NewSection(None,
                           <<"R", "e", "c", "o", "g", "n", "i", "z", "e", "d", " ",
                             "c", "o", "n", "t", "e", "n", "t">>)>>
                    ELSE doc.sections
      region_info ==
        <<"D", "e", "t", "e", "c", "t", "e", "d", " ">> \o Dec(layout.formula_regions)
          \o <<" ", "f", "o", "r", "m", "u", "l", "a", " ", "r", "e", "g", "i", "o", "n",
               "s", " ", "a", "n", "d", " ">>
          \o Dec(layout.text_regions)
          \o <<" ", "t", "e", "x", "t", " ", "r", "e", "g", "i", "o", "n", "s">>
  IN [doc EXCEPT !.sections =
        IF sections[1].text = <<>>
          THEN [sections EXCEPT ![1].text = region_info]
          ELSE sections]

\* the tail of recognize_document, once the client returned Ok
DocumentResult(res, layout) ==
  IF res.content.kind = "Document"
    THEN Ok([res EXCEPT !.content =
               DocumentContent(enhance_document_with_layout(res.content.doc[1], layout))])
    ELSE Ok(res)

\* a variant of BelowThreshold that also rejects the threshold itself
BelowOrAtThreshold(confidence, threshold) == confidence <= threshold

\* the comparison of step 7
BelowThreshold(confidence, threshold) == confidence < threshold

\* a variant of Abort: the failure of step 1 is recorded and the pipeline goes on
AbortAfterStepOne(step, e) ==
  /\ outcome' = Some(Err(e))
  /\ failedStep' = Some(step)
  /\ pc' = IF step = "validate" THEN "suitable" ELSE "done"

\* a `return Err(..)` or a failing `?` of recognize_content in the given step
Abort(step, e) ==
  /\ outcome' = Some(Err(e))
  /\ failedStep' = Some(step)
  /\ pc' = "done"

\* Step 1: validate image data
ValidateStep ==
  /\ pc = "validate"
  /\ trace' = Append(trace, "validate")
  /\ IF ~validate_image(image)
       THEN Abort("validate", ImageError(<<"Invalid image data provided">>))
       ELSE pc' = "suitable" /\ UNCHANGED <<outcome, failedStep>>
  /\ UNCHANGED <<detected_type, result>>
  /\ UNCHANGED <<inputVars, clientVars>>
  /\ UNCHANGED sharedVars

\* Step 2: check that the image is suitable for processing
SuitableStep ==
  /\ pc = "suitable"
  /\ trace' = Append(trace, "suitable")
  /\ LET suitable == is_image_suitable_for_processing(image) IN
       IF suitable.tag = "Err" THEN Abort("suitable", suitable.v)
       ELSE IF ~suitable.v
         THEN Abort("suitable", ImageError(<<"Image is not suitable for processing (too small, too large, or poor quality)">>))
       ELSE pc' = "preprocess" /\ UNCHANGED <<outcome, failedStep>>
  /\ UNCHANGED <<detected_type, result>>
  /\ UNCHANGED <<inputVars, clientVars>>
  /\ UNCHANGED sharedVars

\* Step 3: preprocess the image if enabled
PreprocessStep ==
  /\ pc = "preprocess"
  /\ IF recConfig.preprocessing_enabled
       THEN /\ trace' = Append(trace, "preprocess")
            /\ IF preprocess_image(image).tag = "Err"
                 THEN Abort("preprocess", preprocess_image(image).v)
                 ELSE pc' = "classify" /\ UNCHANGED <<outcome, failedStep>>
       ELSE pc' = "classify" /\ UNCHANGED <<trace, outcome, failedStep>>
  /\ UNCHANGED <<detected_type, result>>
  /\ UNCHANGED <<inputVars, clientVars>>
  /\ UNCHANGED sharedVars

\* a variant of Classify that detects the type whenever detection is enabled
ClassifyDetectingFirst(input_type, cfg, img) ==
  IF cfg.auto_type_detection THEN detect_input_type(img)
  ELSE IF input_type # None THEN Ok(input_type[1])
  ELSE Ok("SingleFormula")

\* the match of step 4
Classify(input_type, cfg, img) ==
  IF input_type # None THEN Ok(input_type[1])
  ELSE IF cfg.auto_type_detection THEN detect_input_type(img)
  ELSE Ok("SingleFormula")

\* Step 4: detect the input type if not provided
ClassifyStep ==
  /\ pc = "classify"
  /\ trace' = Append(trace, "classify")
  /\ LET t == Classify(hint, recConfig, image) IN
       IF t.tag = "Err"
         THEN Abort("classify", t.v) /\ UNCHANGED detected_type
         ELSE /\ detected_type' = Some(t.v)
              /\ pc' = "dispatch"
              /\ UNCHANGED <<outcome, failedStep>>
  /\ UNCHANGED result
  /\ UNCHANGED <<inputVars, clientVars>>
  /\ UNCHANGED sharedVars

\* Step 5, up to the await of recognize_image: recognize_single_formula calls
\* the client at once, recognize_document analyses the layout first
DispatchStep ==
  /\ pc = "dispatch"
  /\ trace' = Append(trace, "dispatch")
  /\ IF detected_type[1] = "Document" /\ analyze_image_layout(image).tag = "Err"
       THEN Abort("dispatch", analyze_image_layout(image).v) /\ UNCHANGED clientVars
       ELSE /\ BeginClientCall(detected_type[1])
            /\ pc' = "await"
            /\ UNCHANGED <<outcome, failedStep>>
  /\ UNCHANGED <<detected_type, result>>
  /\ UNCHANGED inputVars
  /\ UNCHANGED sharedVars

\* Step 5, from the return of recognize_image on
DispatchReturn ==
  /\ pc = "await"
  /\ cpc = "done"
  /\ LET r == clientResult[1]
         res == IF r.tag = "Err" THEN r
                ELSE IF detected_type[1] = "SingleFormula" THEN SingleFormulaResult(r.v)
                ELSE DocumentResult(r.v, analyze_image_layout(image).v)
     IN IF res.tag = "Err"
          THEN Abort("dispatch", res.v) /\ UNCHANGED result
          ELSE /\ result' = Some(res.v)
               /\ pc' = "postvalidate"
               /\ UNCHANGED <<outcome, failedStep>>
  /\ UNCHANGED <<detected_type, trace>>
  /\ UNCHANGED <<inputVars, clientVars>>
  /\ UNCHANGED sharedVars

\* Step 6: validate the result if enabled
PostValidateStep ==
  /\ pc = "postvalidate"
  /\ IF recConfig.validation_enabled
       THEN /\ trace' = Append(trace, "postvalidate")
            /\ LET v == validate_recognition_result(result[1]) IN
                 IF v.tag = "Err"
                   THEN Abort("postvalidate", v.v) /\ UNCHANGED result
                   ELSE /\ result' = Some(v.v)
                        /\ pc' = "gate"
                        /\ UNCHANGED <<outcome, failedStep>>
       ELSE pc' = "gate" /\ UNCHANGED <<trace, result, outcome, failedStep>>
  /\ UNCHANGED detected_type
  /\ UNCHANGED <<inputVars, clientVars>>
  /\ UNCHANGED sharedVars

\* a variant of GateStep: a confidence below the threshold starts step 5 again
GateStepRetrying ==
  /\ pc = "gate"
  /\ trace' = Append(trace, "gate")
  /\ IF BelowThreshold(result[1].confidence, recConfig.confidence_threshold)
       THEN pc' = "dispatch" /\ UNCHANGED <<outcome, failedStep>>
       ELSE /\ outcome' = Some(Ok(result[1]))
            /\ pc' = "done"
            /\ UNCHANGED failedStep
  /\ UNCHANGED <<detected_type, result>>
  /\ UNCHANGED <<inputVars, clientVars>>
  /\ UNCHANGED sharedVars

\* Step 7: check the confidence threshold, and return
GateStep ==
  /\ pc = "gate"
  /\ trace' = Append(trace, "gate")
  /\ IF BelowThreshold(result[1].confidence, recConfig.confidence_threshold)
       THEN Abort("gate",
                  ApiError(<<"Recognition confidence (">>
                             \o ConfidenceDisplay(result[1].confidence)
                             \o <<") below threshold (">>
                             \o ConfidenceDisplay(recConfig.confidence_threshold)
                             \o <<")">>))
       ELSE /\ outcome' = Some(Ok(result[1]))
            /\ pc' = "done"
            /\ UNCHANGED failedStep
  /\ UNCHANGED <<detected_type, result>>
  /\ UNCHANGED <<inputVars, clientVars>>
  /\ UNCHANGED sharedVars

----------------------------------------------------------------------------
(* export_manager.rs: ExportManager *)

MarkdownFormulaFormat(inline, block) == [inline |-> inline, block |-> block]

\* impl Default for MarkdownFormulaFormat
DefaultMarkdownFormulaFormat == MarkdownFormulaFormat("Dollar", "DoubleDollar")

\* AppConfig, by the fields the modelled code reads
AppConfig(api_endpoint, api_key, markdown_formula_format) ==
  [api_endpoint |-> api_endpoint, api_key |-> api_key,
   markdown_formula_format |-> markdown_formula_format]

\* impl Default for AppConfig
DefaultAppConfig == AppConfig(<<>>, <<>>, DefaultMarkdownFormulaFormat)

\* AppConfig::validate; the scheme of an endpoint is kept whole
AppConfigValidate(config) ==
  IF config.api_endpoint = <<>>
    THEN Err([kind |-> "ConfigError", msg |-> <<"API endpoint cannot be empty">>])
  ELSE IF config.api_key = <<>>
    THEN Err([kind |-> "ConfigError", msg |-> <<"API key cannot be empty">>])
  ELSE IF ~StartsWith(config.api_endpoint, <<"http://">>)
          /\ ~StartsWith(config.api_endpoint, <<"https://">>)
    THEN Err([kind |-> "ConfigError", msg |-> <<"API endpoint must be a valid URL">>])
  ELSE Ok(<<>>)

ExportConfig(format, include_metadata) ==
  [format |-> format, include_metadata |-> include_metadata]

\* impl Default for ExportConfig
DefaultExportConfig == ExportConfig("LaTeX", TRUE)

\* a panic of the thread running the export
Panic == [tag |-> "Panic", v |-> <<>>]

\* the bytes that continue a multi-byte UTF-8 character in the model's texts
ContinuationBytes == {"A9"}

\* str::is_char_boundary
is_char_boundary(s, index) ==
  \/ index = 0
  \/ index = Len(s)
  \/ index < Len(s) /\ s[index + 1] \notin ContinuationBytes

\* String::insert_str, which panics when idx is not on a char boundary of s
insert_str(s, idx, piece) ==
  IF ~is_char_boundary(s, idx) THEN Panic
  ELSE Ok(SubSeq(s, 1, idx) \o piece \o SubSeq(s, idx + 1, Len(s)))

\* str::trim_matches('$')
trim_matches_dollar(s) == TrimEnd(TrimStart(s, {"$"}), {"$"})

\* the place of one more element in a list sorted by descending position, behind
\* the elements that compare equal (the sort is stable)
RECURSIVE InsertByPosition(_, _)
InsertByPosition(sorted, f) ==
  IF sorted = <<>> THEN <<f>>
  ELSE IF Head(sorted).position >= f.position
    THEN <<Head(sorted)>> \o InsertByPosition(Tail(sorted), f)
  ELSE <<f>> \o sorted

RECURSIVE SortInto(_, _)
SortInto(sorted, rest) ==
  IF rest = <<>> THEN sorted
  ELSE SortInto(InsertByPosition(sorted, Head(rest)), Tail(rest))

\* a variant of sorted_formulas: the fragments in the order of the list
unsorted_formulas(formulas) == formulas

\* section.formulas.clone() sorted by |a, b| b.position.cmp(&a.position)
sorted_formulas(formulas) == SortInto(<<>>, formulas)

\* the loop `for formula in ..: text.insert_str(formula.position, &markup)`
\* over the fragments' positions and markups
RECURSIVE InsertAll(_, _)
InsertAll(text, items) ==
  IF items = <<>> THEN Ok(text)
  ELSE LET r == insert_str(text, Head(items).position, Head(items).markup) IN
         IF r.tag = "Panic" THEN r ELSE InsertAll(r.v, Tail(items))

\* the pieces pushed for the sections, one after the other
RECURSIVE PushAll(_)
PushAll(pieces) ==
  IF pieces = <<>> THEN Ok(<<>>)
  ELSE IF Head(pieces).tag = "Panic" THEN Panic
  ELSE LET rest == PushAll(Tail(pieces)) IN
         IF rest.tag = "Panic" THEN Panic ELSE Ok(Head(pieces).v \o rest.v)

\* the literal text document_to_latex pushes or formats with
LatexText ==
  [
   preamble |->
     <<"\\", "d", "o", "c", "u", "m", "e", "n", "t", "c", "l", "a", "s", "s", "{", "a",
       "r", "t", "i", "c", "l", "e", "}", "\n", "\\", "u", "s", "e", "p", "a", "c", "k",
       "a", "g", "e", "{", "a", "m", "s", "m", "a", "t", "h", "}", "\n", "\\", "u", "s",
       "e", "p", "a", "c", "k", "a", "g", "e", "{", "a", "m", "s", "f", "o", "n", "t", "s",
       "}", "\n", "\\", "u", "s", "e", "p", "a", "c", "k", "a", "g", "e", "{", "a", "m",
       "s", "s", "y", "m", "b", "}", "\n", "\\", "u", "s", "e", "p", "a", "c", "k", "a",
       "g", "e", "[", "u", "t", "f", "8", "]", "{", "i", "n", "p", "u", "t", "e", "n", "c",
       "}", "\n", "\n", "\\", "b", "e", "g", "i", "n", "{", "d", "o", "c", "u", "m", "e",
       "n", "t", "}", "\n", "\n">>,
   title_open |->
     <<"\\", "t", "i", "t", "l", "e", "{">>,
   title_close |->
     <<"}", "\n", "\\", "m", "a", "k", "e", "t", "i", "t", "l", "e", "\n", "\n">>,
   section_open |->
     <<"\\", "s", "e", "c", "t", "i", "o", "n", "{">>,
   section_close |->
     <<"}", "\n", "\n">>,
   equation_open |->
     <<"\\", "b", "e", "g", "i", "n", "{", "e", "q", "u", "a", "t", "i", "o", "n", "}",
       "\n">>,
   equation_close |->
     <<"\n", "\\", "e", "n", "d", "{", "e", "q", "u", "a", "t", "i", "o", "n", "}">>,
   end |->
     <<"\\", "e", "n", "d", "{", "d", "o", "c", "u", "m", "e", "n", "t", "}">>
  ]

\* the markup document_to_latex gives a fragment
LatexFormula(formula) ==
  IF formula.is_inline
    THEN <<"$">> \o trim_matches_dollar(formula.latex) \o <<"$">>
    ELSE LatexText.equation_open \o trim_matches_dollar(formula.latex) \o LatexText.equation_close

\* the body of document_to_latex's loop for one section
LatexSection(section) ==
  LET heading == IF section.heading = None THEN <<>>
                 ELSE LatexText.section_open \o section.heading[1] \o LatexText.section_close
      sorted == sorted_formulas(section.formulas)
      text == InsertAll(section.text,
                        [i \in 1..Len(sorted) |->
                           [position |-> sorted[i].position,
                            markup |-> LatexFormula(sorted[i])]])
  IN IF section.text = <<>> THEN Ok(heading)
     ELSE IF text.tag = "Panic" THEN Panic
     ELSE Ok(heading \o text.v \o <<"\n", "\n">>)

\* ExportManager::document_to_latex
document_to_latex(doc) ==
  LET title == IF doc.title = None THEN <<>>
               ELSE LatexText.title_open \o doc.title[1] \o LatexText.title_close
      body == PushAll([i \in 1..Len(doc.sections) |-> LatexSection(doc.sections[i])])
  IN IF body.tag = "Panic" THEN Panic
     ELSE Ok(LatexText.preamble \o title \o body.v \o LatexText.end)

\* ExportManager::format_formula_for_markdown
format_formula_for_markdown(latex, is_inline, format) ==
  LET clean_latex == trim_matches_dollar(latex) IN
    IF is_inline
      THEN IF format.inline = "Dollar"
             THEN <<"$">> \o clean_latex \o <<"$">>
             ELSE <<"\\", "(">> \o clean_latex \o <<"\\", ")">>
      ELSE IF format.block = "DoubleDollar"
             THEN <<"$", "$">> \o clean_latex \o <<"$", "$">>
             ELSE <<"\\", "[">> \o clean_latex \o <<"\\", "]">>

\* the body of document_to_markdown's loop for one section
MarkdownSection(section, format) ==
  LET heading == IF section.heading = None THEN <<>>
                 ELSE <<"#", "#", " ">> \o section.heading[1] \o <<"\n", "\n">>
      sorted == sorted_formulas(section.formulas)
      text == InsertAll(section.text,
                        [i \in 1..Len(sorted) |->
                           [position |-> sorted[i].position,
                            markup |-> format_formula_for_markdown(
                                         sorted[i].latex, sorted[i].is_inline, format)]])
  IN IF section.text = <<>> THEN Ok(heading)
     ELSE IF text.tag = "Panic" THEN Panic
     ELSE Ok(heading \o text.v \o <<"\n", "\n">>)

\* ExportManager::document_to_markdown
document_to_markdown(doc, format) ==
  LET title == IF doc.title = None THEN <<>>
               ELSE <<"#", " ">> \o doc.title[1] \o <<"\n", "\n">>
      body == PushAll([i \in 1..Len(doc.sections) |->
                         MarkdownSection(doc.sections[i], format)])
  IN IF body.tag = "Panic" THEN Panic ELSE Ok(title \o body.v)

\* the literal text export_to_html pushes or formats with
HtmlText ==
  [
   head |->
     <<"<", "!", "D", "O", "C", "T", "Y", "P", "E", " ", "h", "t", "m", "l", ">", "\n",
       "<", "h", "t", "m", "l", ">", "\n", "<", "h", "e", "a", "d", ">", "\n", "<", "m",
       "e", "t", "a", " ", "c", "h", "a", "r", "s", "e", "t", "=", "\"", "u", "t", "f",
       "-", "8", "\"", ">", "\n", "<", "t", "i", "t", "l", "e", ">", "M", "a", "t", "h",
       "e", "m", "a", "t", "i", "c", "a", "l", " ", "F", "o", "r", "m", "u", "l", "a", "<",
       "/", "t", "i", "t", "l", "e", ">", "\n", "<", "s", "c", "r", "i", "p", "t", " ",
       "s", "r", "c", "=", "\"", "h", "t", "t", "p", "s", ":", "/", "/", "p", "o", "l",
       "y", "f", "i", "l", "l", ".", "i", "o", "/", "v", "3", "/", "p", "o", "l", "y", "f",
       "i", "l", "l", ".", "m", "i", "n", ".", "j", "s", "?", "f", "e", "a", "t", "u", "r",
       "e", "s", "=", "e", "s", "6", "\"", ">", "<", "/", "s", "c", "r", "i", "p", "t",
       ">", "\n", "<", "s", "c", "r", "i", "p", "t", " ", "i", "d", "=", "\"", "M", "a",
       "t", "h", "J", "a", "x", "-", "s", "c", "r", "i", "p", "t", "\"", " ", "a", "s",
       "y", "n", "c", " ", "s", "r", "c", "=", "\"", "h", "t", "t", "p", "s", ":", "/",
       "/", "c", "d", "n", ".", "j", "s", "d", "e", "l", "i", "v", "r", ".", "n", "e", "t",
       "/", "n", "p", "m", "/", "m", "a", "t", "h", "j", "a", "x", "@", "3", "/", "e", "s",
       "5", "/", "t", "e", "x", "-", "m", "m", "l", "-", "c", "h", "t", "m", "l", ".", "j",
       "s", "\"", ">", "<", "/", "s", "c", "r", "i", "p", "t", ">", "\n", "<", "s", "c",
       "r", "i", "p", "t", ">", "\n", "w", "i", "n", "d", "o", "w", ".", "M", "a", "t",
       "h", "J", "a", "x", " ", "=", " ", "{", "\n", " ", " ", "t", "e", "x", ":", " ",
       "{", "\n", " ", " ", " ", " ", "i", "n", "l", "i", "n", "e", "M", "a", "t", "h",
       ":", " ", "[", "[", "'", "$", "'", ",", " ", "'", "$", "'", "]", ",", " ", "[", "'",
       "\\", "\\", "(", "'", ",", " ", "'", "\\", "\\", ")", "'", "]", "]", ",", "\n", " ",
       " ", " ", " ", "d", "i", "s", "p", "l", "a", "y", "M", "a", "t", "h", ":", " ", "[",
       "[", "'", "$", "$", "'", ",", " ", "'", "$", "$", "'", "]", ",", " ", "[", "'",
       "\\", "\\", "[", "'", ",", " ", "'", "\\", "\\", "]", "'", "]", "]", "\n", " ", " ",
       "}", "\n", "}", ";", "\n", "<", "/", "s", "c", "r", "i", "p", "t", ">", "\n", "<",
       "s", "t", "y", "l", "e", ">", "\n", "b", "o", "d", "y", " ", "{", " ", "f", "o",
       "n", "t", "-", "f", "a", "m", "i", "l", "y", ":", " ", "s", "e", "r", "i", "f", ";",
       " ", "m", "a", "r", "g", "i", "n", ":", " ", "2", "r", "e", "m", ";", " ", "l", "i",
       "n", "e", "-", "h", "e", "i", "g", "h", "t", ":", " ", "1", ".", "6", ";", " ", "}",
       "\n", ".", "f", "o", "r", "m", "u", "l", "a", " ", "{", " ", "t", "e", "x", "t",
       "-", "a", "l", "i", "g", "n", ":", " ", "c", "e", "n", "t", "e", "r", ";", " ", "m",
       "a", "r", "g", "i", "n", ":", " ", "1", "r", "e", "m", " ", "0", ";", " ", "}",
       "\n", ".", "d", "o", "c", "u", "m", "e", "n", "t", "-", "t", "i", "t", "l", "e",
       " ", "{", " ", "t", "e", "x", "t", "-", "a", "l", "i", "g", "n", ":", " ", "c", "e",
       "n", "t", "e", "r", ";", " ", "f", "o", "n", "t", "-", "s", "i", "z", "e", ":", " ",
       "1", ".", "5", "e", "m", ";", " ", "m", "a", "r", "g", "i", "n", "-", "b", "o", "t",
       "t", "o", "m", ":", " ", "2", "r", "e", "m", ";", " ", "}", "\n", ".", "s", "e",
       "c", "t", "i", "o", "n", "-", "h", "e", "a", "d", "i", "n", "g", " ", "{", " ", "f",
       "o", "n", "t", "-", "s", "i", "z", "e", ":", " ", "1", ".", "2", "e", "m", ";", " ",
       "m", "a", "r", "g", "i", "n", ":", " ", "1", ".", "5", "r", "e", "m", " ", "0", " ",
       "1", "r", "e", "m", " ", "0", ";", " ", "}", "\n", "<", "/", "s", "t", "y", "l",
       "e", ">", "\n", "<", "/", "h", "e", "a", "d", ">", "\n", "<", "b", "o", "d", "y",
       ">", "\n">>,
   formula_open |->
     <<"<", "d", "i", "v", " ", "c", "l", "a", "s", "s", "=", "\"", "f", "o", "r", "m",
       "u", "l", "a", "\"", ">", "\n">>,
   formula_close |->
     <<"\n", "<", "/", "d", "i", "v", ">", "\n">>,
   title_open |->
     <<"<", "h", "1", " ", "c", "l", "a", "s", "s", "=", "\"", "d", "o", "c", "u", "m",
       "e", "n", "t", "-", "t", "i", "t", "l", "e", "\"", ">">>,
   title_close |->
     <<"<", "/", "h", "1", ">", "\n">>,
   heading_open |->
     <<"<", "h", "2", " ", "c", "l", "a", "s", "s", "=", "\"", "s", "e", "c", "t", "i",
       "o", "n", "-", "h", "e", "a", "d", "i", "n", "g", "\"", ">">>,
   heading_close |->
     <<"<", "/", "h", "2", ">", "\n">>,
   meta_open |->
     <<"<", "h", "r", ">", "\n", "<", "d", "i", "v", " ", "c", "l", "a", "s", "s", "=",
       "\"", "m", "e", "t", "a", "d", "a", "t", "a", "\"", ">", "\n", "<", "s", "m", "a",
       "l", "l", ">", "\n", "G", "e", "n", "e", "r", "a", "t", "e", "d", " ", "b", "y",
       " ", "M", "a", "t", "h", "S", "e", "e", "k", "<", "b", "r", ">", "\n", "I", "n",
       "p", "u", "t", " ", "T", "y", "p", "e", ":", " ">>,
   meta_confidence |->
     <<"<", "b", "r", ">", "\n", "C", "o", "n", "f", "i", "d", "e", "n", "c", "e", ":",
       " ">>,
   meta_close |->
     <<"<", "b", "r", ">", "\n", "<", "/", "s", "m", "a", "l", "l", ">", "\n", "<", "/",
       "d", "i", "v", ">", "\n">>,
   end |->
     <<"<", "/", "b", "o", "d", "y", ">", "\n", "<", "/", "h", "t", "m", "l", ">">>
  ]

\* str::split("\n\n")
RECURSIVE SplitBlankLines(_)
SplitBlankLines(s) ==
  LET hits == {i \in 1..(Len(s) - 1) : s[i] = "\n" /\ s[i + 1] = "\n"} IN
    IF hits = {} THEN <<s>>
    ELSE LET first == CHOOSE i \in hits : \A j \in hits : i <= j IN
           <<SubSeq(s, 1, first - 1)>> \o SplitBlankLines(SubSeq(s, first + 2, Len(s)))

\* the loop over the paragraphs of export_to_html
RECURSIVE HtmlParagraphs(_)
HtmlParagraphs(paragraphs) ==
  IF paragraphs = <<>> THEN <<>>
  ELSE (IF Trim(Head(paragraphs)) = <<>> THEN <<>>
        ELSE <<"<", "p", ">">> \o Trim(Head(paragraphs)) \o <<"<", "/", "p", ">", "\n">>)
         \o HtmlParagraphs(Tail(paragraphs))

\* the markup export_to_html gives a fragment
HtmlFormula(formula) ==
  IF formula.is_inline
    THEN <<"$">> \o trim_matches_dollar(formula.latex) \o <<"$">>
    ELSE <<"$", "$">> \o trim_matches_dollar(formula.latex) \o <<"$", "$">>

\* the body of export_to_html's loop for one section
HtmlSection(section) ==
  LET heading == IF section.heading = None THEN <<>>
                 ELSE HtmlText.heading_open \o section.heading[1] \o HtmlText.heading_close
      sorted == sorted_formulas(section.formulas)
      text == InsertAll(section.text,
                        [i \in 1..Len(sorted) |->
                           [position |-> sorted[i].position,
                            markup |-> HtmlFormula(sorted[i])]])
  IN IF section.text = <<>> THEN Ok(heading \o <<"\n">>)
     ELSE IF text.tag = "Panic" THEN Panic
     ELSE Ok(heading \o HtmlParagraphs(SplitBlankLines(text.v)) \o <<"\n">>)

\* Debug of InputType
InputTypeDebug(input_type) ==
  IF input_type = "SingleFormula"
    THEN <<"S", "i", "n", "g", "l", "e", "F", "o", "r", "m", "u", "l", "a">>
    ELSE <<"D", "o", "c", "u", "m", "e", "n", "t">>

\* ExportManager::export_to_html
export_to_html(res, config) ==
  LET content ==
        IF res.content.kind = "SingleFormula"
          THEN Ok(HtmlText.formula_open \o <<"$", "$">>
                    \o trim_matches_dollar(res.content.latex)
                    \o <<"$", "$">> \o HtmlText.formula_close)
          ELSE LET doc == res.content.doc[1]
                   title == IF doc.title = None THEN <<>>
                            ELSE HtmlText.title_open \o doc.title[1] \o HtmlText.title_close
                   body == PushAll([i \in 1..Len(doc.sections) |->
                                      HtmlSection(doc.sections[i])])
               IN IF body.tag = "Panic" THEN Panic ELSE Ok(title \o body.v)
      metadata ==
        IF config.include_metadata
          THEN HtmlText.meta_open \o InputTypeDebug(res.input_type) \o HtmlText.meta_confidence
                 \o ConfidenceDisplay(res.confidence) \o HtmlText.meta_close
          ELSE <<>>
  IN IF content.tag = "Panic" THEN Panic
     ELSE Ok(HtmlText.head \o content.v \o metadata \o HtmlText.end)

\* ExportManager::export_to_latex
export_to_latex(res) ==
  IF res.content.kind = "SingleFormula" THEN Ok(res.content.latex)
  ELSE document_to_latex(res.content.doc[1])

\* export_to_markdown with a standalone formula formatted as an inline one
export_to_markdown_inline_style(res, app) ==
  IF res.content.kind = "SingleFormula"
    THEN Ok(format_formula_for_markdown(res.content.latex, TRUE,
                                        app.markdown_formula_format))
    ELSE document_to_markdown(res.content.doc[1], app.markdown_formula_format)

\* ExportManager::export_to_markdown
export_to_markdown(res, app) ==
  IF res.content.kind = "SingleFormula"
    THEN Ok(format_formula_for_markdown(res.content.latex, FALSE,
                                        app.markdown_formula_format))
    ELSE document_to_markdown(res.content.doc[1], app.markdown_formula_format)

\* ExportManager::export_to_plain_text; str::len counts bytes
export_to_plain_text(res) ==
  IF res.content.kind = "SingleFormula" THEN Ok(res.content.latex)
  ELSE
    LET doc == res.content.doc[1]
        Underlined(s, c) == s \o <<"\n">> \o [i \in 1..Len(s) |-> c] \o <<"\n", "\n">>
        title == IF doc.title = None THEN <<>> ELSE Underlined(doc.title[1], "=")
        Numbered(fs) ==
          LET lines[i \in 0..Len(fs)] ==
                IF i = 0 THEN <<>>
                ELSE lines[i - 1] \o Dec(i) \o <<".", " ">> \o fs[i].latex \o <<" ", "(">>
                       \o (IF fs[i].is_inline THEN <<"i", "n", "l", "i", "n", "e">>
                                               ELSE <<"b", "l", "o", "c", "k">>)
                       \o <<")", "\n">>
          IN lines[Len(fs)]
        PlainSection(section) ==
          (IF section.heading = None THEN <<>> ELSE Underlined(section.heading[1], "-"))
            \o (IF section.text = <<>> THEN <<>> ELSE section.text \o <<"\n", "\n">>)
            \o (IF section.formulas = <<>> THEN <<>>
                ELSE <<"F", "o", "r", "m", "u", "l", "a", "s", ":", "\n">>
                       \o Numbered(section.formulas) \o <<"\n">>)
        body[i \in 0..Len(doc.sections)] ==
          IF i = 0 THEN <<>> ELSE body[i - 1] \o PlainSection(doc.sections[i])
    IN Ok(title \o body[Len(doc.sections)])

\* ExportManager::export_to_latex_inline: the fragments are inserted in the
\* order of the list, into the body text of every section
export_to_latex_inline(res) ==
  IF res.content.kind = "SingleFormula"
    THEN Ok(<<"$">> \o trim_matches_dollar(res.content.latex) \o <<"$">>)
  ELSE
    LET doc == res.content.doc[1]
        InlineSection(section) ==
          LET heading == IF section.heading = None THEN <<>>
                         ELSE LatexText.section_open \o section.heading[1]
                                \o LatexText.section_close
              text == InsertAll(section.text,
                                [i \in 1..Len(section.formulas) |->
                                   [position |-> section.formulas[i].position,
                                    markup |-> <<"$">>
                                      \o trim_matches_dollar(section.formulas[i].latex)
                                      \o <<"$">>]])
          IN IF text.tag = "Panic" THEN Panic
             ELSE Ok(heading \o text.v \o <<"\n", "\n">>)
    IN PushAll([i \in 1..Len(doc.sections) |-> InlineSection(doc.sections[i])])

\* ExportManager::export_to_latex_block and document_to_latex_block
export_to_latex_block(res) ==
  IF res.content.kind = "SingleFormula"
    THEN Ok(<<"$", "$">> \o trim_matches_dollar(res.content.latex) \o <<"$", "$">>)
  ELSE
    LET doc == res.content.doc[1]
        Underlined(s, c) == s \o <<"\n">> \o [i \in 1..Len(s) |-> c] \o <<"\n", "\n">>
        title == IF doc.title = None THEN <<>> ELSE Underlined(doc.title[1], "=")
        Blocks(fs) ==
          LET blocks[i \in 0..Len(fs)] ==
                IF i = 0 THEN <<>>
                ELSE blocks[i - 1] \o <<"$", "$">> \o trim_matches_dollar(fs[i].latex)
                       \o <<"$", "$", "\n", "\n">>
          IN blocks[Len(fs)]
        BlockSection(section) ==
          (IF section.heading = None THEN <<>> ELSE Underlined(section.heading[1], "-"))
            \o (IF section.text = <<>> THEN <<>> ELSE section.text \o <<"\n", "\n">>)
            \o Blocks(section.formulas)
        body[i \in 0..Len(doc.sections)] ==
          IF i = 0 THEN <<>> ELSE body[i - 1] \o BlockSection(doc.sections[i])
    IN Ok(title \o body[Len(doc.sections)])

\* ExportManager::export_to_markdown_inline and document_to_markdown_inline
export_to_markdown_inline(res, app) ==
  LET format == app.markdown_formula_format IN
    IF res.content.kind = "SingleFormula"
      THEN Ok(format_formula_for_markdown(res.content.latex, TRUE, format))
    ELSE
      LET doc == res.content.doc[1]
          title == IF doc.title = None THEN <<>>
                   ELSE <<"#", " ">> \o doc.title[1] \o <<"\n", "\n">>
          InlineSection(section) ==
            LET heading == IF section.heading = None THEN <<>>
                           ELSE <<"#", "#", " ">> \o section.heading[1] \o <<"\n", "\n">>
                sorted == sorted_formulas(section.formulas)
                text == InsertAll(section.text,
                                  [i \in 1..Len(sorted) |->
                                     [position |-> sorted[i].position,
                                      markup |-> format_formula_for_markdown(
                                                   sorted[i].latex, TRUE, format)]])
            IN IF section.text = <<>> THEN Ok(heading)
               ELSE IF text.tag = "Panic" THEN Panic
               ELSE Ok(heading \o text.v \o <<"\n", "\n">>)
          body == PushAll([i \in 1..Len(doc.sections) |-> InlineSection(doc.sections[i])])
      IN IF body.tag = "Panic" THEN Panic ELSE Ok(title \o body.v)

\* ExportManager::export_to_markdown_block and document_to_markdown_block
export_to_markdown_block(res, app) ==
  LET format == app.markdown_formula_format IN
    IF res.content.kind = "SingleFormula"
      THEN Ok(format_formula_for_markdown(res.content.latex, FALSE, format))
    ELSE
      LET doc == res.content.doc[1]
          title == IF doc.title = None THEN <<>>
                   ELSE <<"#", " ">> \o doc.title[1] \o <<"\n", "\n">>
          Blocks(fs) ==
            LET blocks[i \in 0..Len(fs)] ==
                  IF i = 0 THEN <<>>
                  ELSE blocks[i - 1]
                         \o format_formula_for_markdown(fs[i].latex, FALSE, format)
                         \o <<"\n", "\n">>
            IN blocks[Len(fs)]
          BlockSection(section) ==
            (IF section.heading = None THEN <<>>
             ELSE <<"#", "#", " ">> \o section.heading[1] \o <<"\n", "\n">>)
              \o (IF section.text = <<>> THEN <<>> ELSE section.text \o <<"\n", "\n">>)
              \o Blocks(section.formulas)
          body[i \in 0..Len(doc.sections)] ==
            IF i = 0 THEN <<>> ELSE body[i - 1] \o BlockSection(doc.sections[i])
      IN Ok(title \o body[Len(doc.sections)])

\* ExportManager::export_to_docx, a labelled summary in plain text
export_to_docx(res) ==
  LET Header == <<"D", "O", "C", "X", " ", "E", "x", "p", "o", "r", "t", ":", "\n", "\n">> IN
    IF res.content.kind = "SingleFormula"
      THEN Ok(Header \o <<"F", "o", "r", "m", "u", "l", "a", ":", " ">> \o res.content.latex)
    ELSE
      LET doc == res.content.doc[1]
          title == IF doc.title = None THEN <<>>
                   ELSE <<"T", "i", "t", "l", "e", ":", " ">> \o doc.title[1]
                          \o <<"\n", "\n">>
          Numbered(fs) ==
            LET lines[j \in 0..Len(fs)] ==
                  IF j = 0 THEN <<>>
                  ELSE lines[j - 1] \o <<"F", "o", "r", "m", "u", "l", "a", " ">> \o Dec(j)
                         \o <<":", " ">> \o fs[j].latex \o <<" ", "(">>
                         \o (IF fs[j].is_inline THEN <<"i", "n", "l", "i", "n", "e">>
                                                 ELSE <<"b", "l", "o", "c", "k">>)
                         \o <<")", "\n">>
            IN lines[Len(fs)]
          DocxSection(i, section) ==
            <<"S", "e", "c", "t", "i", "o", "n", " ">> \o Dec(i) \o <<":", "\n">>
              \o (IF section.heading = None THEN <<>>
                  ELSE <<"H", "e", "a", "d", "i", "n", "g", ":", " ">> \o section.heading[1]
                         \o <<"\n">>)
              \o (IF section.text = <<>> THEN <<>>
                  ELSE <<"T", "e", "x", "t", ":", " ">> \o section.text \o <<"\n">>)
              \o Numbered(section.formulas)
              \o <<"\n">>
          body[i \in 0..Len(doc.sections)] ==
            IF i = 0 THEN <<>> ELSE body[i - 1] \o DocxSection(i, doc.sections[i])
      IN Ok(Header \o title \o body[Len(doc.sections)])

\* the formula_count of export_formula_result
FormulaCount(res) ==
  IF res.content.kind = "SingleFormula" THEN 1
  ELSE Len(AllFormulas(res.content.doc[1].sections))

\* ExportManager::export_formula_result; the timestamps of the metadata are not
\* modelled
export_formula_result(res, config, app) ==
  LET content == CASE config.format = "LaTeX" -> export_to_latex(res)
                   [] config.format = "LaTeXInline" -> export_to_latex_inline(res)
                   [] config.format = "LaTeXBlock" -> export_to_latex_block(res)
                   [] config.format = "Markdown" -> export_to_markdown(res, app)
                   [] config.format = "MarkdownInline" -> export_to_markdown_inline(res, app)
                   [] config.format = "MarkdownBlock" -> export_to_markdown_block(res, app)
                   [] config.format = "DOCX" -> export_to_docx(res)
                   [] config.format = "HTML" -> export_to_html(res, config)
                   [] config.format = "PlainText" -> export_to_plain_text(res)
  IN IF content.tag = "Panic" THEN Panic
     ELSE Ok([content |-> content.v,
              format |-> config.format,
              metadata |-> [original_input_type |-> res.input_type,
                            export_format |-> config.format,
                            character_count |-> Len(content.v),
                            formula_count |-> FormulaCount(res)]])

\* a variant of get_available_formats that offers a standalone formula seven formats
get_available_formats_without_block(input_type) ==
  IF input_type = "SingleFormula"
    THEN <<"LaTeX", "LaTeXInline", "LaTeXBlock", "Markdown", "MarkdownInline",
           "HTML", "PlainText">>
    ELSE <<"LaTeX", "Markdown", "HTML", "DOCX", "PlainText">>

\* ExportManager::get_available_formats
get_available_formats(input_type) ==
  IF input_type = "SingleFormula"
    THEN <<"LaTeX", "LaTeXInline", "LaTeXBlock", "Markdown", "MarkdownInline",
           "MarkdownBlock", "HTML", "PlainText">>
    ELSE <<"LaTeX", "Markdown", "HTML", "DOCX", "PlainText">>

\* a call of get_available_formats, its input_type argument kept in hint
FormatsCall ==
  /\ entry = "get_available_formats"
  /\ pc = "call"
  /\ outcome' = Some(get_available_formats(hint[1]))
  /\ pc' = "returned"
  /\ UNCHANGED <<detected_type, result, trace, failedStep>>
  /\ UNCHANGED <<inputVars, clientVars>>
  /\ UNCHANGED sharedVars

\* a call of export_formula_result
ExportCall ==
  /\ entry = "export_formula_result"
  /\ pc = "call"
  /\ outcome' = Some(export_formula_result(arg[1], exportConfig, appConfig))
  /\ pc' = "returned"
  /\ UNCHANGED <<detected_type, result, trace, failedStep>>
  /\ UNCHANGED <<inputVars, clientVars>>
  /\ UNCHANGED sharedVars

\* a call of is_valid_latex_syntax on its own
SyntaxCall ==
  /\ entry = "is_valid_latex_syntax"
  /\ pc = "call"
  /\ outcome' = Some(is_valid_latex_syntax(arg[1]))
  /\ pc' = "returned"
  /\ UNCHANGED <<detected_type, result, trace, failedStep>>
  /\ UNCHANGED <<inputVars, clientVars>>
  /\ UNCHANGED sharedVars

\* a call of extract_single_formula_from_document on the argument's document
ExtractCall ==
  /\ entry = "extract_single_formula_from_document"
  /\ pc = "call"
  /\ outcome' = Some(extract_single_formula_from_document(arg[1].content.doc[1]))
  /\ pc' = "returned"
  /\ UNCHANGED <<detected_type, result, trace, failedStep>>
  /\ UNCHANGED <<inputVars, clientVars>>
  /\ UNCHANGED sharedVars

\* a call of FormulaResult::validate on the argument, or of
\* DocumentContent::validate on its document
DataValidateCall ==
  /\ entry \in {"FormulaResult::validate", "DocumentContent::validate"}
  /\ pc = "call"
  /\ outcome' = Some(IF entry = "FormulaResult::validate"
                       THEN FormulaResultValidate(arg[1])
                       ELSE DocumentValidate(arg[1].content.doc[1]))
  /\ pc' = "returned"
  /\ UNCHANGED <<detected_type, result, trace, failedStep>>
  /\ UNCHANGED <<inputVars, clientVars>>
  /\ UNCHANGED sharedVars

\* a call of validate_recognition_result on its own
ValidateCall ==
  /\ entry = "validate_recognition_result"
  /\ pc = "call"
  /\ outcome' = Some(validate_recognition_result(arg[1]))
  /\ pc' = "returned"
  /\ UNCHANGED <<detected_type, result, trace, failedStep>>
  /\ UNCHANGED <<inputVars, clientVars>>
  /\ UNCHANGED sharedVars

----------------------------------------------------------------------------
(* config_manager.rs: ConfigManager; the file holds the serialized           *)
(* EncryptedAppConfig, and the failures of the file system are not modelled  *)

\* BASE64_STANDARD on the keys of the model: a text and its encoding
BASE64_STANDARD ==
  {<<(<<>>), (<<>>)>>,
   <<(<<"k">>), (<<"a", "w", "=", "=">>)>>,
   <<(<<"s", "k">>), (<<"c", "2", "s", "=">>)>>}

\* ConfigManager::encrypt_sensitive_data
encrypt_sensitive_data(config) ==
  [api_endpoint |-> config.api_endpoint,
   encrypted_api_key |-> (CHOOSE p \in BASE64_STANDARD : p[1] = config.api_key)[2],
   markdown_formula_format |-> config.markdown_formula_format]

\* ConfigManager::decrypt_sensitive_data
decrypt_sensitive_data(encrypted_config) ==
  LET decoded == {p \in BASE64_STANDARD : p[2] = encrypted_config.encrypted_api_key} IN
    IF decoded = {}
      THEN Err([kind |-> "ConfigError", msg |-> <<"Failed to decrypt API key: ">>])
      ELSE Ok(AppConfig(encrypted_config.api_endpoint,
                        (CHOOSE p \in decoded : TRUE)[1],
                        encrypted_config.markdown_formula_format))

\* ConfigManager::save_config: its result and the file it leaves
save_config(file, config) ==
  IF AppConfigValidate(config).tag = "Err"
    THEN [result |-> AppConfigValidate(config), file |-> file]
    ELSE [result |-> Ok(<<>>), file |-> Some(encrypt_sensitive_data(config))]

\* ConfigManager::load_config
load_config(file) ==
  IF file = None THEN Ok(None)
  ELSE LET config == decrypt_sensitive_data(file[1]) IN
         IF config.tag = "Err" THEN config
         ELSE IF AppConfigValidate(config.v).tag = "Err" THEN AppConfigValidate(config.v)
         ELSE Ok(Some(config.v))

\* ConfigManager::reset_config: its result and the file it leaves
reset_config(file) ==
  LET default_config == DefaultAppConfig
      saved == save_config(file, default_config)
  IN IF saved.result.tag = "Err" THEN saved
     ELSE [result |-> Ok(default_config), file |-> saved.file]

\* the latest two calls on the manager, the newest last
LatestCalls(name) == IF trace = <<>> THEN <<name>> ELSE <<trace[Len(trace)], name>>

\* a call of save_config, load_config or reset_config on the manager
ConfigCall ==
  /\ entry = "config_manager"
  /\ \/ \E config \in {AppConfig(e, k, f) :
                          e \in {<<>>, <<"https://", "h">>, <<"http://", "h">>,
                                 <<"f", "t", "p">>},
                          k \in {<<>>, <<"k">>, <<"s", "k">>},
                          f \in {DefaultMarkdownFormulaFormat,
                                 MarkdownFormulaFormat("Parentheses", "Brackets")}} :
          /\ arg' = Some(config)
          /\ outcome' = Some(save_config(stored, config).result)
          /\ stored' = save_config(stored, config).file
          /\ trace' = LatestCalls("save_config")
     \/ /\ arg' = None
        /\ outcome' = Some(load_config(stored))
        /\ stored' = stored
        /\ trace' = LatestCalls("load_config")
     \/ /\ arg' = None
        /\ outcome' = Some(reset_config(stored).result)
        /\ stored' = reset_config(stored).file
        /\ trace' = LatestCalls("reset_config")
  /\ UNCHANGED <<entry, hint, image, apiConfig, recConfig, appConfig, exportConfig>>
  /\ UNCHANGED <<pc, detected_type, result, failedStep>>
  /\ UNCHANGED <<clientVars, transport, calls>>

----------------------------------------------------------------------------
(* The calls the model makes *)

InputTypes == {"SingleFormula", "Document"}

RecognitionConfigs ==
  {RecognitionConfig(t, p, a, v) :
     t \in {DefaultConfidenceThreshold, 100}, p \in BOOLEAN, a \in BOOLEAN, v \in BOOLEAN}

ApiConfigs ==
  {ApiConfig(<<"u">>, <<"k">>, DefaultTimeoutSeconds, n, d) :
     n \in 0..MaxRetriesBound, d \in {DefaultRetryDelayMs, 250}}

\* images by what the checks of steps 1 to 5 read of them; SmallFile is a byte
\* length within the limit
Images ==
  LET SmallFile == 2048 IN
  {Image(TRUE, FALSE, 0, 0, 0, FALSE, 0, 0),
   Image(FALSE, FALSE, 0, 0, 6, FALSE, 0, 0),
   Image(FALSE, TRUE, MinDimension - 1, MinDimension, SmallFile, TRUE, 0, 0),
   Image(FALSE, TRUE, MinDimension, MinDimension - 1, SmallFile, TRUE, 0, 0),
   Image(FALSE, TRUE, MaxDimension + 1, MinDimension, SmallFile, TRUE, 0, 0),
   Image(FALSE, TRUE, MinDimension, MaxDimension + 1, SmallFile, TRUE, 0, 0),
   Image(FALSE, TRUE, MinDimension, MinDimension, MaxFileSize + 1, TRUE, 0, 0),
   Image(FALSE, TRUE, MinDimension, MinDimension, SmallFile, FALSE, 1, 0),
   Image(FALSE, TRUE, MaxDimension, MaxDimension, MaxFileSize, TRUE, 1, 1),
   Image(FALSE, TRUE, MinDimension, MinDimension, SmallFile, TRUE, 1, 0),
   Image(FALSE, TRUE, MinDimension, MinDimension, SmallFile, TRUE, 2, 0),
   Image(FALSE, TRUE, MinDimension, MinDimension, SmallFile, TRUE, 0, 1)}

NoImage == Image(TRUE, FALSE, 0, 0, 0, FALSE, 0, 0)

NoExportCall ==
  /\ appConfig = DefaultAppConfig
  /\ exportConfig = DefaultExportConfig
  /\ arg = None

\* the transport ApiClient::new built, no calls side by side, and no stored
\* configuration
NoSharedCalls ==
  /\ transport = apiConfig.timeout_seconds
  /\ calls = <<>>
  /\ stored = None

ClientIdle ==
  /\ cpc = "idle"
  /\ reqType = "SingleFormula"
  /\ attempt = 0
  /\ last_error = None
  /\ clientResult = None
  /\ nCalls = 0
  /\ nAttempts = 0
  /\ nOk = 0
  /\ sleeps = <<>>
  /\ lastOutcome = None

\* recognize_content(image, hint) or re_recognize_with_type(image, forced) on
\* an engine built by RecognitionEngine::new or with_config, which take the
\* client's retry settings from ApiConfig::from(&AppConfig)
InitEngine ==
  /\ entry \in {"recognize", "re_recognize"}
  /\ hint \in (IF entry = "recognize" THEN {None} ELSE {})
                \cup {Some(t) : t \in InputTypes}
  /\ image \in Images
  /\ apiConfig = DefaultApiConfig
  /\ recConfig \in RecognitionConfigs
  /\ NoExportCall
  /\ pc = "validate"
  /\ detected_type = None
  /\ result = None
  /\ outcome = None
  /\ trace = <<>>
  /\ failedStep = None
  /\ ClientIdle
  /\ NoSharedCalls

\* recognize_image(.., input_type) or analyze_formula(..) on a client built by
\* ApiClient::new: the state when make_request_with_retry enters its loop, or
\* has skipped it because its range is empty
InitClient ==
  /\ entry \in {"recognize_image", "analyze_formula"}
  /\ hint = None
  /\ image = NoImage
  /\ apiConfig \in ApiConfigs
  /\ recConfig = DefaultRecognitionConfig
  /\ NoExportCall
  /\ pc = "none"
  /\ detected_type = None
  /\ result = None
  /\ outcome = None
  /\ trace = <<>>
  /\ failedStep = None
  /\ cpc = IF 0 <= LastAttemptIndex(apiConfig) THEN "request" ELSE "done"
  /\ reqType \in (IF entry = "analyze_formula" THEN {"analyze"} ELSE InputTypes)
  /\ attempt = 0
  /\ last_error = None
  /\ clientResult = IF 0 <= LastAttemptIndex(apiConfig) THEN None
                    ELSE Some(Err(LoopError(None)))
  /\ nCalls = 1
  /\ nAttempts = 0
  /\ nOk = 0
  /\ sleeps = <<>>
  /\ lastOutcome = None
  /\ NoSharedCalls

Init == InitEngine \/ InitClient

Next ==
  \/ ValidateStep
  \/ SuitableStep
  \/ PreprocessStep
  \/ ClassifyStep
  \/ DispatchStep
  \/ Sleep
  \/ Request
  \/ DispatchReturn
  \/ PostValidateStep
  \/ GateStep

Spec == Init /\ [][Next]_vars

\* the engine and the client at rest, for a call that uses neither
EngineIdle ==
  /\ hint = None
  /\ image = NoImage
  /\ apiConfig = DefaultApiConfig
  /\ recConfig = DefaultRecognitionConfig
  /\ detected_type = None
  /\ result = None
  /\ outcome = None
  /\ trace = <<>>
  /\ failedStep = None
  /\ ClientIdle
  /\ NoSharedCalls

\* the results handed to validate_recognition_result
ValidateArguments ==
  LET Confidences == {0 - 10, 0, DefaultConfidenceThreshold, 95, 100, 150} IN
    {new_single_formula(l, c) :
       l \in {<<>>, LatexX, <<"{", "x">>, <<" ">>, <<"$", "x", "$">>}, c \in Confidences}
      \cup {FormulaResult(LatexX, c, "Document", DocumentContent(d)) :
              d \in ResponseDocuments, c \in Confidences}

\* validate_recognition_result(&mut result) on a result of any shape
InitValidate ==
  /\ entry = "validate_recognition_result"
  /\ arg \in {Some(r) : r \in ValidateArguments}
  /\ appConfig = DefaultAppConfig
  /\ exportConfig = DefaultExportConfig
  /\ pc = "call"
  /\ EngineIdle

SpecValidate == InitValidate /\ [][ValidateCall]_vars

\* result.validate() on a result of any shape, document.validate() on the
\* document of a Document result
InitDataModel ==
  /\ entry \in {"FormulaResult::validate", "DocumentContent::validate"}
  /\ arg \in {Some(r) : r \in {a \in ValidateArguments :
                                  entry = "DocumentContent::validate"
                                    => a.content.kind = "Document"}}
  /\ appConfig = DefaultAppConfig
  /\ exportConfig = DefaultExportConfig
  /\ pc = "call"
  /\ EngineIdle

SpecDataModel == InitDataModel /\ [][DataValidateCall]_vars

MaxSections == 2

\* the documents handed to extract_single_formula_from_document: up to
\* MaxSections sections, each with or without fragments, over bodies that are
\* empty, plain, formulas ("$a$", "\[a"), a formula after a blank, and a text
\* with a dollar inside
ExtractDocuments ==
  LET Texts == {<<>>, TextAb, <<"$", "a", "$">>, <<"\\", "[", "a">>,
                <<" ", "$", "a">>, <<"a", "$">>}
      FormulaLists == {<<>>, <<FormulaBlock(LatexX, 0, TRUE)>>,
                       <<FormulaBlock(<<"y">>, 1, FALSE), FormulaBlock(LatexX, 0, TRUE)>>}
      Sections == {Section(None, t, fs) : t \in Texts, fs \in FormulaLists}
  IN {Document(None, ss) : ss \in UNION {[1..n -> Sections] : n \in 0..MaxSections}}

\* extract_single_formula_from_document(&doc) on an engine
InitExtract ==
  /\ entry = "extract_single_formula_from_document"
  /\ arg \in {Some(FormulaResult(LatexX, 90, "Document", DocumentContent(d))) :
                d \in ExtractDocuments}
  /\ appConfig = DefaultAppConfig
  /\ exportConfig = DefaultExportConfig
  /\ pc = "call"
  /\ EngineIdle

SpecExtract == InitExtract /\ [][ExtractCall]_vars

\* a ConfigManager whose config.json does not exist yet
InitConfig ==
  /\ entry = "config_manager"
  /\ arg = None
  /\ appConfig = DefaultAppConfig
  /\ exportConfig = DefaultExportConfig
  /\ pc = "none"
  /\ EngineIdle

SpecConfig == InitConfig /\ [][ConfigCall]_vars

MaxLatexLen == 4

\* the texts handed to is_valid_latex_syntax: every text of braces, dollars,
\* letters and blanks up to the bound, and the texts of the engine's test
LatexTexts ==
  UNION {[1..n -> {"{", "}", "$", "x", " "}] : n \in 0..MaxLatexLen}
    \cup {<<"x", "^", "2">>, <<"$", "x", "+", "y", "$">>, <<"x", "^", "2", "}">>,
          <<"{", "x", "^", "2">>, <<"$", "x", "+", "y">>,
          <<"\\", "f", "r", "a", "c", "{", "a", "}", "{", "b", "}">>}

\* is_valid_latex_syntax(latex) on an engine
InitSyntax ==
  /\ entry = "is_valid_latex_syntax"
  /\ arg \in {Some(s) : s \in LatexTexts}
  /\ appConfig = DefaultAppConfig
  /\ exportConfig = DefaultExportConfig
  /\ pc = "call"
  /\ EngineIdle

SpecSyntax == InitSyntax /\ [][SyntaxCall]_vars

----------------------------------------------------------------------------
(* Calls side by side on one ApiClient, and update_config *)

CallIds == {"a", "b"}

\* what an attempt of such a call can meet
SharedOutcomes ==
  {Outcome("timeout", 0, None, None),
   Outcome("http", 401, Some(<<>>), None),
   Outcome("ok", 200, None, Some(Envelope(Some(LatexX), Some(90), None, <<>>)))}

\* the configurations given to ApiClient::new and to update_config
SharedConfigs ==
  {ApiConfig(<<"u">>, <<"k">>, DefaultTimeoutSeconds, 1, DefaultRetryDelayMs),
   ApiConfig(<<"v">>, <<"l">>, 10, 2, 250),
   ApiConfig(<<>>, <<"l">>, 10, 2, 250),
   ApiConfig(<<"v">>, <<>>, 10, 2, 250)}

\* a call not yet made: url and range_end are make_request_with_retry's url and
\* the end of its range, both computed once; started, requests, slept and met
\* are history
IdleCall ==
  [pc |-> "idle", url |-> None, range_end |-> 0, attempt |-> 0, last_error |-> None,
   result |-> None, started |-> None, requests |-> <<>>, slept |-> <<>>, met |-> <<>>]

\* a variant of ExclusiveBorrow: update_config at any time, as through a shared
\* mutable reference
NoExclusion == TRUE

\* update_config takes `&mut self`, a call borrows `&self` until its future is
\* done: update_config can run only while no call is in flight
ExclusiveBorrow == \A c \in CallIds : calls[c].pc \in {"idle", "done"}

\* a variant of update_config that builds the new transport before it looks at
\* the credential
update_config_building_first(self, config, builds) ==
  IF config.endpoint = <<>>
    THEN [result |-> Err([kind |-> "ConfigError",
                          msg |-> <<"API endpoint cannot be empty">>]),
          self |-> self]
  ELSE IF ~builds
    THEN [result |-> Err(NetworkError(<<"Failed to create HTTP client: ">>)),
          self |-> self]
  ELSE IF config.api_key = <<>>
    THEN [result |-> Err([kind |-> "ConfigError", msg |-> <<"API key cannot be empty">>]),
          self |-> [self EXCEPT !.client = config.timeout_seconds]]
  ELSE [result |-> Ok(<<>>),
        self |-> [client |-> config.timeout_seconds, config |-> config]]

\* ApiClient::update_config on self = [client, config]: its result and the
\* client it leaves; builds tells whether ClientBuilder::build succeeds
update_config(self, config, builds) ==
  IF config.endpoint = <<>>
    THEN [result |-> Err([kind |-> "ConfigError",
                          msg |-> <<"API endpoint cannot be empty">>]),
          self |-> self]
  ELSE IF config.api_key = <<>>
    THEN [result |-> Err([kind |-> "ConfigError", msg |-> <<"API key cannot be empty">>]),
          self |-> self]
  ELSE IF ~builds
    THEN [result |-> Err(NetworkError(<<"Failed to create HTTP client: ">>)),
          self |-> self]
  ELSE [result |-> Ok(<<>>),
        self |-> [client |-> config.timeout_seconds, config |-> config]]

\* a call of update_config on the shared client; arg keeps the configuration
\* it was given
UpdateConfig ==
  /\ entry = "shared_client"
  /\ ExclusiveBorrow
  /\ \E config \in SharedConfigs, builds \in BOOLEAN :
       LET updated == update_config([client |-> transport, config |-> apiConfig],
                                    config, builds)
       IN /\ arg' = Some(config)
          /\ outcome' = Some(updated.result)
          /\ transport' = updated.self.client
          /\ apiConfig' = updated.self.config
  /\ UNCHANGED <<entry, hint, image, recConfig, appConfig, exportConfig>>
  /\ UNCHANGED <<pc, detected_type, result, trace, failedStep>>
  /\ UNCHANGED <<clientVars, calls, stored>>

\* the head of make_request_with_retry in recognize_image
CallBegin(c) ==
  /\ entry = "shared_client"
  /\ calls[c].pc = "idle"
  /\ calls' = [calls EXCEPT ![c] =
                 [@ EXCEPT !.pc = "request",
                           !.url = Some(apiConfig.endpoint),
                           !.range_end = LastAttemptIndex(apiConfig),
                           !.started = Some([config |-> apiConfig,
                                             transport |-> transport])]]
  /\ UNCHANGED <<inputVars, engineVars, clientVars, transport, stored>>

\* the sleep that opens every iteration but the first
CallSleep(c) ==
  /\ entry = "shared_client"
  /\ calls[c].pc = "sleep"
  /\ calls' = [calls EXCEPT ![c] =
                 [@ EXCEPT !.pc = "request",
                           !.slept = Append(@, SleepDelay(apiConfig, calls[c].attempt))]]
  /\ UNCHANGED <<inputVars, engineVars, clientVars, transport, stored>>

\* one make_single_request and the match on its result
CallRequest(c) ==
  /\ entry = "shared_client"
  /\ calls[c].pc = "request"
  /\ \E o \in SharedOutcomes :
       LET r == make_single_request(o)
           sent == [endpoint |-> calls[c].url[1], api_key |-> apiConfig.api_key,
                    timeout_seconds |-> apiConfig.timeout_seconds,
                    transport |-> transport]
           call == [calls[c] EXCEPT !.requests = Append(@, sent), !.met = Append(@, o)]
       IN calls' = [calls EXCEPT ![c] =
            IF r.tag = "Ok"
              THEN [call EXCEPT !.pc = "done",
                                !.result = Some(ParseFor("SingleFormula", r.v))]
            ELSE IF NoRetry(r.v) \/ call.attempt >= call.range_end
              THEN [call EXCEPT !.pc = "done",
                                !.last_error = Some(r.v),
                                !.result = Some(Err(LoopError(Some(r.v))))]
            ELSE [call EXCEPT !.pc = "sleep",
                              !.last_error = Some(r.v),
                              !.attempt = @ + 1]]
  /\ UNCHANGED <<inputVars, engineVars, clientVars, transport, stored>>

\* a client built by ApiClient::new, on which two calls of recognize_image and
\* any number of calls of update_config are made
InitShared ==
  /\ entry = "shared_client"
  /\ hint = None
  /\ image = NoImage
  /\ apiConfig \in SharedConfigs
  /\ recConfig = DefaultRecognitionConfig
  /\ NoExportCall
  /\ pc = "none"
  /\ detected_type = None
  /\ result = None
  /\ outcome = None
  /\ trace = <<>>
  /\ failedStep = None
  /\ ClientIdle
  /\ transport = apiConfig.timeout_seconds
  /\ calls = [c \in CallIds |-> IdleCall]
  /\ stored = None

NextShared ==
  \/ UpdateConfig
  \/ \E c \in CallIds : CallBegin(c)
  \/ \E c \in CallIds : CallSleep(c)
  \/ \E c \in CallIds : CallRequest(c)

SpecShared == InitShared /\ [][NextShared]_vars

----------------------------------------------------------------------------
(* The export calls the model makes *)

MaxFragments == 2

MaxPosition == 3

\* the fragments a section can carry
Fragments ==
  {FormulaBlock(LatexX, p, TRUE) : p \in 0..MaxPosition}
    \cup {FormulaBlock(<<"$", "y", "$">>, p, FALSE) : p \in 0..MaxPosition}

FragmentLists ==
  UNION {[1..n -> Fragments] : n \in 0..MaxFragments}

\* one-section documents over every body ("", "ab" and "aéb" in UTF-8) and every
\* fragment list, and a few documents with headings, titles, paragraphs and
\* several sections
ExportDocuments ==
  LET Intro == <<"I", "n", "t", "r", "o">>
      See == <<"S", "e", "e", " ", "x", "=", "y", " ", "b", "e", "l", "o", "w", ".">>
      Paragraphs == <<"a", "\n", "\n", " ", "b", " ">>
      Algebra == <<"A", "l", "g">>
  IN {Document(None, <<Section(None, t, fs)>>) :
        t \in {<<>>, TextAb, <<"a", "C3", "A9", "b">>}, fs \in FragmentLists}
       \cup {Document(None, <<>>),
             Document(None, <<Section(Some(Intro), See,
                                      <<FormulaBlock(<<"x", "=", "y">>, 4, TRUE)>>)>>),
             Document(Some(Algebra),
                      <<Section(Some(Intro), Paragraphs, <<FormulaBlock(LatexX, 4, TRUE)>>),
                        Section(None, TextAb,
                                <<FormulaBlock(LatexX, 0, TRUE),
                                  FormulaBlock(<<"$", "y", "$">>, 2, FALSE)>>)>>),
             Document(Some(Algebra),
                      <<Section(Some(Intro), <<>>, <<FormulaBlock(LatexX, 0, TRUE)>>),
                        Section(None, TextAb, <<>>)>>)}

\* the export configuration and the manager's configuration of a call
ExportSettings ==
  {<<ExportConfig("LaTeX", TRUE), DefaultAppConfig>>,
   <<ExportConfig("Markdown", TRUE), DefaultAppConfig>>,
   <<ExportConfig("Markdown", TRUE),
     AppConfig(<<>>, <<>>, MarkdownFormulaFormat("Parentheses", "Brackets"))>>,
   <<ExportConfig("HTML", TRUE), DefaultAppConfig>>,
   <<ExportConfig("HTML", FALSE), DefaultAppConfig>>,
   <<ExportConfig("PlainText", TRUE), DefaultAppConfig>>,
   <<ExportConfig("LaTeXInline", TRUE), DefaultAppConfig>>,
   <<ExportConfig("LaTeXBlock", TRUE), DefaultAppConfig>>,
   <<ExportConfig("MarkdownInline", TRUE), DefaultAppConfig>>,
   <<ExportConfig("MarkdownInline", TRUE),
     AppConfig(<<>>, <<>>, MarkdownFormulaFormat("Parentheses", "Brackets"))>>,
   <<ExportConfig("MarkdownBlock", TRUE), DefaultAppConfig>>,
   <<ExportConfig("DOCX", TRUE), DefaultAppConfig>>}

\* the standalone formulas exported: "E = mc^2", bare and between dollars
ExportFormulas ==
  LET Energy == <<"E", " ", "=", " ", "m", "c", "^", "2">> IN
    {Energy, <<"$">> \o Energy \o <<"$">>, <<"$", "$">> \o Energy \o <<"$", "$">>, LatexX}

\* get_available_formats(&input_type) on an ExportManager
InitFormats ==
  /\ entry = "get_available_formats"
  /\ hint \in {Some(t) : t \in InputTypes}
  /\ image = NoImage
  /\ apiConfig = DefaultApiConfig
  /\ recConfig = DefaultRecognitionConfig
  /\ NoExportCall
  /\ pc = "call"
  /\ detected_type = None
  /\ result = None
  /\ outcome = None
  /\ trace = <<>>
  /\ failedStep = None
  /\ ClientIdle
  /\ NoSharedCalls

\* export_formula_result(&result, &export_config) on an ExportManager
InitExportCall ==
  /\ entry = "export_formula_result"
  /\ arg \in {Some(FormulaResult(LatexX, 90, "Document", DocumentContent(d))) :
               d \in ExportDocuments}
              \cup {Some(new_single_formula(l, 95)) : l \in ExportFormulas}
  /\ \E settings \in ExportSettings :
       exportConfig = settings[1] /\ appConfig = settings[2]
  /\ pc = "call"
  /\ EngineIdle

InitExport == InitExportCall \/ InitFormats

SpecExport == InitExport /\ [][ExportCall \/ FormatsCall]_vars

----------------------------------------------------------------------------
(* Claims about the retry loop *)

EngineEntries == {"recognize", "re_recognize"}
ClientEntries == {"recognize_image", "analyze_formula"}

ClientErrorCodes == {<<"4", "0", "0">>, <<"4", "0", "1">>, <<"4", "0", "3">>}

\* the text holds "400", "401" or "403" somewhere
MentionsClientErrorCode(msg) ==
  \E i \in 1..(Len(msg) - 2) : <<msg[i], msg[i + 1], msg[i + 2]>> \in ClientErrorCodes

\* the latest attempt failed
LastAttemptFailed == lastOutcome # None /\ lastOutcome[1].kind # "ok"

\* the latest attempt was answered with HTTP 400, 401 or 403
LastAttemptClientError ==
  /\ lastOutcome # None
  /\ lastOutcome[1].kind = "http"
  /\ lastOutcome[1].status \in {400, 401, 403}

\* the error make_single_request returns for the latest (failed) attempt
LastAttemptError ==
  make_single_request(
    Outcome(lastOutcome[1].kind, lastOutcome[1].status, lastOutcome[1].text, None)).v

ClientReturnedErr ==
  cpc = "done" /\ clientResult # None /\ clientResult[1].tag = "Err"

\* C1 as stated: one client call makes at most N = max_retries request attempts.
CE_C1_AtMostNAttempts == nAttempts <= apiConfig.max_retries

\* C1, amended: one client call (recognize_image or analyze_formula, direct or
\* from the engine) makes at most max_retries + 1 request attempts, the first
\* attempt and max_retries retries; when no attempt succeeded and the last
\* attempt's error is not an API error whose message holds 400, 401 or 403, the
\* call has failed after exactly max_retries + 1 attempts.
C1_AtMostRetriesPlusOne ==
  /\ nAttempts <= apiConfig.max_retries + 1
  /\ (/\ cpc = "done"
      /\ nOk = 0
      /\ ~(LastAttemptError.kind = "ApiError"
             /\ MentionsClientErrorCode(LastAttemptError.msg)))
       => (nAttempts = apiConfig.max_retries + 1 /\ ClientReturnedErr)

\* the default three retries used up by four failed attempts
W_C1_Exhausted ==
  /\ cpc = "done"
  /\ apiConfig.max_retries = DefaultMaxRetries
  /\ nOk = 0
  /\ nAttempts = DefaultMaxRetries + 1
  /\ lastOutcome[1].kind = "timeout"
  /\ ClientReturnedErr

\* C2: an attempt answered with HTTP 400, 401 or 403 ends the loop at once: the
\* call has returned that attempt's API error, and no sleep followed the
\* attempt (the sleeps made are those before the attempts made).
C2_ClientErrorEndsLoop ==
  LastAttemptClientError =>
    /\ cpc = "done"
    /\ clientResult = Some(Err(LastAttemptError))
    /\ clientResult[1].v.kind = "ApiError"
    /\ Len(sleeps) = nAttempts - 1

\* a 401 on the first attempt: one attempt, no sleep
W_C2_FirstAttempt401 ==
  /\ LastAttemptClientError
  /\ lastOutcome[1].status = 401
  /\ nAttempts = 1
  /\ sleeps = <<>>
  /\ ClientReturnedErr

\* C3 as stated: an attempt failure that is not an HTTP 400/401/403 response is
\* followed by another attempt while attempts remain (here: while fewer than
\* max_retries attempts were made, which both readings of the retry count
\* accept as "attempts remain"), and the error returned at the end is the
\* latest attempt's.
CE_C3_OtherFailuresRetried ==
  (LastAttemptFailed /\ ~LastAttemptClientError) =>
    /\ nAttempts < apiConfig.max_retries => cpc = "sleep"
    /\ cpc = "done" => clientResult = Some(Err(LastAttemptError))

\* C4: the sleeps of a call are, in order, 1 x base, 2 x base, ...; attempt k
\* is made after exactly k - 1 sleeps; after an attempt that succeeded the call
\* has returned, so no attempt follows it.
C4_LinearBackoff ==
  /\ \A k \in 1..Len(sleeps) : sleeps[k] = k * apiConfig.retry_delay_ms
  /\ cpc = "request" => Len(sleeps) = nAttempts
  /\ cpc \in {"sleep", "done"} => Len(sleeps) = nAttempts - 1
  /\ nOk <= 1
  /\ nOk = 1 => (cpc = "done" /\ lastOutcome[1].kind = "ok")

\* three retries, two failures, then a success
W_C4_ThirdAttemptSucceeds ==
  /\ apiConfig.max_retries = 3
  /\ cpc = "done"
  /\ nAttempts = 3
  /\ nOk = 1
  /\ sleeps = <<apiConfig.retry_delay_ms, 2 * apiConfig.retry_delay_ms>>
  /\ clientResult[1].tag = "Ok"

----------------------------------------------------------------------------
(* Claims about recognize_content *)

EngineDone == entry \in EngineEntries /\ pc = "done"

GateRan == trace # <<>> /\ trace[Len(trace)] = "gate"

\* C5: a call that reaches step 7 with final confidence c and threshold t
\* fails with an API error when c < t and returns the result when c >= t; no
\* call returns a result without passing step 7, whether or not step 6 is
\* enabled.
C5_ConfidenceGate ==
  EngineDone =>
    /\ GateRan =>
         IF result[1].confidence < recConfig.confidence_threshold
           THEN outcome[1].tag = "Err" /\ outcome[1].v.kind = "ApiError"
           ELSE outcome = Some(Ok(result[1]))
    /\ outcome[1].tag = "Ok" =>
         (GateRan /\ outcome[1].v.confidence >= recConfig.confidence_threshold)

\* a confidence equal to the threshold passes, with step 6 disabled
W_C5_AtThreshold ==
  /\ EngineDone
  /\ ~recConfig.validation_enabled
  /\ outcome[1].tag = "Ok"
  /\ outcome[1].v.confidence = recConfig.confidence_threshold

PipelineOrder ==
  <<"validate", "suitable", "preprocess", "classify", "dispatch", "postvalidate", "gate">>

StepEnabled(step) ==
  /\ step = "preprocess" => recConfig.preprocessing_enabled
  /\ step = "postvalidate" => recConfig.validation_enabled

\* the steps a call runs when none fails
ExpectedTrace == SelectSeq(PipelineOrder, StepEnabled)

ImageChecksFail ==
  \/ ~validate_image(image)
  \/ is_image_suitable_for_processing(image) # Ok(TRUE)
  \/ recConfig.preprocessing_enabled /\ preprocess_image(image).tag = "Err"

\* C7: the steps executed are always an initial part of validate, suitable,
\* preprocess (if enabled), classify, dispatch, postvalidate (if enabled),
\* gate; a failed step is the last step executed and ends the call with its
\* error; an image that fails validation, the suitability check or
\* preprocessing causes no client call and no request; a call that returns a
\* result has executed every enabled step.
C7_StrictOrder ==
  entry \in EngineEntries =>
    /\ trace = SubSeq(ExpectedTrace, 1, Len(trace))
    /\ failedStep # None =>
         /\ pc = "done"
         /\ trace[Len(trace)] = failedStep[1]
         /\ outcome[1].tag = "Err"
    /\ ImageChecksFail => (nCalls = 0 /\ nAttempts = 0 /\ cpc = "idle")
    /\ pc = "done" =>
         \/ outcome[1].tag = "Err" /\ failedStep # None
         \/ outcome = Some(Ok(result[1])) /\ failedStep = None /\ trace = ExpectedTrace

\* a call that ran all seven steps and returned a result
W_C7_AllSteps ==
  /\ EngineDone
  /\ trace = PipelineOrder
  /\ outcome[1].tag = "Ok"

\* C8: one recognize or re_recognize call starts at most one client call; the
\* client runs only while step 5 awaits it, so after a failure of the image
\* checks, of step 6 or of step 7 nothing is requested again.
C8_NoEngineRetry ==
  entry \in EngineEntries =>
    /\ nCalls <= 1
    /\ cpc \in {"request", "sleep"} => pc = "await"
    /\ failedStep # None => (pc = "done" /\ cpc \in {"idle", "done"})

\* a call rejected by step 7 after its one client call
W_C8_GateFailureTerminal ==
  /\ EngineDone
  /\ failedStep = Some("gate")
  /\ nCalls = 1
  /\ nAttempts >= 1

----------------------------------------------------------------------------
(* Claims about post-validation *)

ValidateReturned == entry = "validate_recognition_result" /\ pc = "returned"

OutOfRange(c) == c < 0 \/ c > 100

NearestBound(c) == IF c > 100 THEN 100 ELSE IF c < 0 THEN 0 ELSE c

\* a result that post-validation accepts once its confidence is in range
AcceptableButForConfidence(res) ==
  validate_recognition_result([res EXCEPT !.confidence = NearestBound(res.confidence)]).tag
    = "Ok"

\* C6: a result whose confidence lies outside [0,1], and is otherwise
\* acceptable, is not rejected by post-validation: the step succeeds and leaves
\* the confidence at the nearest bound
CE_C6_OutOfRangeClamped ==
  (ValidateReturned /\ OutOfRange(arg[1].confidence)
     /\ AcceptableButForConfidence(arg[1]))
    => /\ outcome[1].tag = "Ok"
       /\ outcome[1].v.confidence = NearestBound(arg[1].confidence)

----------------------------------------------------------------------------
(* Claims about the document exports *)

ExportReturned == entry = "export_formula_result" /\ pc = "returned"

ArgSingle == arg[1].content.kind = "SingleFormula"

ArgDocument == arg[1].content.doc[1]

DistinctOffsets(formulas) ==
  \A i, j \in 1..Len(formulas) : i # j => formulas[i].position # formulas[j].position

\* every ordering of a list
Orderings(list) ==
  {[i \in 1..Len(list) |-> list[p[i]]] :
     p \in {q \in [1..Len(list) -> 1..Len(list)] :
              \A i, j \in 1..Len(list) : i # j => q[i] # q[j]}}

\* the argument with the fragments of section k in another order
WithFragments(res, k, formulas) ==
  [res EXCEPT !.content =
     DocumentContent([ArgDocument EXCEPT !.sections[k].formulas = formulas])]

\* C9: for the LaTeX, Markdown and HTML exports of a document, and every
\* section with two or more fragments at distinct offsets, the export's outcome
\* is the same for every ordering of the section's fragment list
C9_OrderIndependent ==
  (ExportReturned /\ ~ArgSingle /\ exportConfig.format \in {"LaTeX", "Markdown", "HTML"}) =>
    \A k \in 1..Len(ArgDocument.sections) :
      LET formulas == ArgDocument.sections[k].formulas IN
        (Len(formulas) >= 2 /\ DistinctOffsets(formulas)) =>
          \A other \in Orderings(formulas) :
            export_formula_result(WithFragments(arg[1], k, other),
                                  exportConfig, appConfig) = outcome[1]

\* a Markdown export that returned a rendering of a section whose two fragments
\* are listed in ascending offset order, so that the sort reorders them
W_C9_AscendingListRendered ==
  /\ ExportReturned
  /\ exportConfig.format = "Markdown"
  /\ outcome[1].tag = "Ok"
  /\ Len(ArgDocument.sections) = 1
  /\ ArgDocument.sections[1].text = TextAb
  /\ Len(ArgDocument.sections[1].formulas) = 2
  /\ ArgDocument.sections[1].formulas[1].position = 0
  /\ ArgDocument.sections[1].formulas[2].position = 1

RECURSIVE SumLen(_)
SumLen(pieces) ==
  IF pieces = <<>> THEN 0 ELSE Len(Head(pieces)) + SumLen(Tail(pieces))

\* the markups of the fragments whose offset is smaller than that of fragment i
SmallerMarkups(formulas, i) ==
  LET smaller == SelectSeq(formulas, LAMBDA g : g.position < formulas[i].position)
  IN [j \in 1..Len(smaller) |-> LatexFormula(smaller[j])]

\* where the markup of fragment i starts: its offset plus the markup length of
\* the fragments with smaller offsets
MarkupStart(formulas, i) == formulas[i].position + SumLen(SmallerMarkups(formulas, i))

\* the characters of body at the places that are not in covered, in order
RECURSIVE Uncovered(_, _, _)
Uncovered(body, covered, k) ==
  IF k > Len(body) THEN <<>>
  ELSE (IF k \in covered THEN <<>> ELSE <<body[k]>>) \o Uncovered(body, covered, k + 1)

\* body is the section's text with every fragment's markup at its place and the
\* original characters in their order
BodyRendered(body, section) ==
  LET formulas == section.formulas
      covered == {k \in 1..Len(body) :
                    \E i \in 1..Len(formulas) :
                      /\ k > MarkupStart(formulas, i)
                      /\ k <= MarkupStart(formulas, i) + Len(LatexFormula(formulas[i]))}
  IN /\ Len(body) = Len(section.text)
                      + SumLen([i \in 1..Len(formulas) |-> LatexFormula(formulas[i])])
     /\ \A i \in 1..Len(formulas) :
          SubSeq(body, MarkupStart(formulas, i) + 1,
                 MarkupStart(formulas, i) + Len(LatexFormula(formulas[i])))
            = LatexFormula(formulas[i])
     /\ Uncovered(body, covered, 1) = section.text

IsPrefix(p, s) == Len(p) <= Len(s) /\ SubSeq(s, 1, Len(p)) = p

IsSuffix(p, s) == Len(p) <= Len(s) /\ SubSeq(s, Len(s) - Len(p) + 1, Len(s)) = p

\* piece is the rendering of one section: the optional \section{heading}, the
\* rendered body, and the blank line that may close it
SectionRendered(piece, section) ==
  LET heading == IF section.heading = None THEN <<>>
                 ELSE LatexText.section_open \o section.heading[1] \o LatexText.section_close
  IN /\ IsPrefix(heading, piece)
     /\ \E close \in {<<>>, <<"\n", "\n">>} :
          LET rest == SubSeq(piece, Len(heading) + 1, Len(piece)) IN
            /\ IsSuffix(close, rest)
            /\ BodyRendered(SubSeq(rest, 1, Len(rest) - Len(close)), section)

\* content is the renderings of the sections, one after the other
RECURSIVE SectionsRendered(_, _)
SectionsRendered(content, sections) ==
  IF sections = <<>> THEN content = <<>>
  ELSE \E k \in 0..Len(content) :
         /\ SectionRendered(SubSeq(content, 1, k), Head(sections))
         /\ SectionsRendered(SubSeq(content, k + 1, Len(content)), Tail(sections))

\* the part of a LaTeX document between the preamble with its title and the
\* closing \end{document}
LatexBody(content, doc) ==
  LET open == LatexText.preamble
                \o (IF doc.title = None THEN <<>>
                    ELSE LatexText.title_open \o doc.title[1] \o LatexText.title_close)
  IN SubSeq(content, Len(open) + 1, Len(content) - Len(LatexText.end))

\* C10: the LaTeX export of a document renders each section as its optional
\* \section{heading} followed by the body text, in which every fragment's markup
\* starts at its offset plus the markup length of the fragments with smaller
\* offsets, and the original characters keep their order
CE_C10_PositionalSplice ==
  (ExportReturned /\ ~ArgSingle /\ exportConfig.format = "LaTeX") =>
    /\ outcome[1].tag = "Ok"
    /\ SectionsRendered(LatexBody(outcome[1].v.content, ArgDocument),
                        ArgDocument.sections)

----------------------------------------------------------------------------
(* Claims about the export of a standalone formula *)

ExportedContent == outcome[1].v.content

EMc2 == <<"E", " ", "=", " ", "m", "c", "^", "2">>

\* the formula between the delimiters of the configured inline style
InlineDelimited(latex, format) ==
  IF format.inline = "Dollar"
    THEN <<"$">> \o latex \o <<"$">>
    ELSE <<"\\", "(">> \o latex \o <<"\\", ")">>

\* the formula between the delimiters of the configured block style
BlockDelimited(latex, format) ==
  IF format.block = "DoubleDollar"
    THEN <<"$", "$">> \o latex \o <<"$", "$">>
    ELSE <<"\\", "[">> \o latex \o <<"\\", "]">>

\* the plain-text export of a standalone formula is the formula, verbatim
PlainTextVerbatim ==
  (ExportReturned /\ ArgSingle /\ exportConfig.format = "PlainText")
    => /\ outcome[1].tag = "Ok"
       /\ ExportedContent = arg[1].content.latex

\* C11 as stated: the Markdown export of a standalone formula is the formula
\* between the delimiters of the configured inline style ($E = mc^2$ by default),
\* and the plain-text export is the formula verbatim
CE_C11_MarkdownInlineDelimiter ==
  /\ (ExportReturned /\ ArgSingle /\ exportConfig.format = "Markdown")
       => /\ outcome[1].tag = "Ok"
          /\ ExportedContent =
               InlineDelimited(trim_matches_dollar(arg[1].content.latex),
                               appConfig.markdown_formula_format)
  /\ PlainTextVerbatim

\* C11, amended: the Markdown export of a standalone formula is the formula,
\* without the dollars around it, between the delimiters of the configured block
\* style ($$E = mc^2$$ by default), and the plain-text export is the formula
\* verbatim
C11_MarkdownBlockDelimiter ==
  /\ (ExportReturned /\ ArgSingle /\ exportConfig.format = "Markdown")
       => /\ outcome[1].tag = "Ok"
          /\ ExportedContent =
               BlockDelimited(trim_matches_dollar(arg[1].content.latex),
                              appConfig.markdown_formula_format)
  /\ PlainTextVerbatim

\* "E = mc^2" exported to Markdown under the default configuration: $$E = mc^2$$
W_C11_DefaultMarkdown ==
  /\ ExportReturned
  /\ ArgSingle
  /\ arg[1].content.latex = EMc2
  /\ arg[1].confidence = 95
  /\ exportConfig.format = "Markdown"
  /\ appConfig = DefaultAppConfig
  /\ outcome[1].tag = "Ok"
  /\ ExportedContent = <<"$", "$">> \o EMc2 \o <<"$", "$">>

----------------------------------------------------------------------------
(* Claims about the mapping of a recognition response *)

RecognizeImageReturned == entry = "recognize_image" /\ cpc = "done"

RecognizeImageOk == RecognizeImageReturned /\ clientResult[1].tag = "Ok"

\* the invariants of the data model on a result: the top-level latex, the
\* confidence, and for a Document its sections
SatisfiesDataModel(r) ==
  /\ r.latex # <<>>
  /\ r.confidence >= 0
  /\ r.confidence <= 100
  /\ r.content.kind = "Document" =>
       LET doc == r.content.doc[1] IN
         /\ Len(doc.sections) >= 1
         /\ \A i \in 1..Len(doc.sections) :
              doc.sections[i].text # <<>> \/ doc.sections[i].formulas # <<>>

\* C12 as stated: a result returned by recognize_image satisfies the invariants
\* of the data model (non-empty latex, confidence in [0,1], a Document with at
\* least one section and no section without both text and fragments); a response
\* mapping to anything else is answered with an API error
CE_C12_ReturnedResultValid ==
  RecognizeImageOk => SatisfiesDataModel(clientResult[1].v)

\* the body of the 2xx response that ended the call
AnsweredBody == lastOutcome[1].body[1]

RecognizeImageAnswered ==
  RecognizeImageReturned /\ lastOutcome # None /\ lastOutcome[1].kind = "ok"

PayloadDecodes == AnsweredBody.content # None /\ AnsweredBody.content[1].decodes

\* C13: a Document request answered with a content payload that decodes gives
\* that Document as content; with the payload absent or not decoding it gives
\* a Document of exactly one section without heading, with the latex string as
\* body text and without fragments; a SingleFormula request gives the latex
\* string as content; a response without latex fails with an API error
C13_ContentMapping ==
  RecognizeImageAnswered =>
    /\ AnsweredBody.latex = None =>
         /\ clientResult[1].tag = "Err"
         /\ clientResult[1].v.kind = "ApiError"
    /\ (clientResult[1].tag = "Ok" /\ reqType = "Document") =>
         /\ clientResult[1].v.content.kind = "Document"
         /\ PayloadDecodes =>
              clientResult[1].v.content.doc[1] = AnsweredBody.content[1].doc
         /\ ~PayloadDecodes =>
              LET doc == clientResult[1].v.content.doc[1] IN
                /\ Len(doc.sections) = 1
                /\ doc.sections[1].heading = None
                /\ doc.sections[1].text = AnsweredBody.latex[1]
                /\ doc.sections[1].formulas = <<>>
    /\ (clientResult[1].tag = "Ok" /\ reqType = "SingleFormula") =>
         /\ clientResult[1].v.content.kind = "SingleFormula"
         /\ clientResult[1].v.content.latex = AnsweredBody.latex[1]

\* a Document request answered with a payload that decodes to a document with a
\* fragment, returned as the content
W_C13_DecodedDocument ==
  /\ RecognizeImageAnswered
  /\ reqType = "Document"
  /\ clientResult[1].tag = "Ok"
  /\ PayloadDecodes
  /\ AnsweredBody.content[1].doc.sections # <<>>
  /\ AnsweredBody.content[1].doc.sections[1].formulas # <<>>
  /\ clientResult[1].v.content.doc[1] = AnsweredBody.content[1].doc

----------------------------------------------------------------------------
(* Claims about the documents the engine returns *)

EngineReturnedDocument ==
  /\ EngineDone
  /\ outcome[1].tag = "Ok"
  /\ outcome[1].v.content.kind = "Document"

ReturnedDocument == outcome[1].v.content.doc[1]

\* every fragment of the document lies within the body text of its section
FragmentsWithinBody(doc) ==
  \A i \in 1..Len(doc.sections) :
    \A k \in 1..Len(doc.sections[i].formulas) :
      doc.sections[i].formulas[k].position <= Len(doc.sections[i].text)

\* C14 as stated: with post-validation enabled, in every Document result that
\* recognize returns each fragment's offset is at most the length of the body
\* text of its section
CE_C14_FragmentOffsetsWithinBody ==
  (EngineReturnedDocument /\ recConfig.validation_enabled)
    => FragmentsWithinBody(ReturnedDocument)

----------------------------------------------------------------------------
(* Claims about the classification of the input *)

\* the layout reports several formula regions or a text region
LayoutOfDocument == image.nFormula > 1 \/ image.nText >= 1

\* C15: the type used for dispatch is the caller's hint when there is one,
\* whatever detection would say; without a hint it is the detected type when
\* auto-detection is enabled and SingleFormula when it is disabled; the detected
\* type is Document exactly when the layout has several formula regions or any
\* text region
C15_DispatchType ==
  (entry \in EngineEntries /\ detected_type # None) =>
    /\ hint # None => detected_type = hint
    /\ (hint = None /\ recConfig.auto_type_detection) =>
         (detected_type[1] = "Document" <=> LayoutOfDocument)
    /\ (hint = None /\ ~recConfig.auto_type_detection) =>
         detected_type[1] = "SingleFormula"
    /\ detected_type[1] \in InputTypes
    /\ nCalls > 0 => reqType = detected_type[1]

\* a SingleFormula hint on an image that detection would call a Document, with
\* auto-detection enabled: the request is for a SingleFormula
W_C15_HintOverridesDetection ==
  /\ entry \in EngineEntries
  /\ hint = Some("SingleFormula")
  /\ recConfig.auto_type_detection
  /\ LayoutOfDocument
  /\ detected_type = Some("SingleFormula")
  /\ nCalls > 0
  /\ reqType = "SingleFormula"

----------------------------------------------------------------------------
(* Claims about the syntax check *)

SyntaxReturned == entry = "is_valid_latex_syntax" /\ pc = "returned"

\* the number of occurrences of c among the first k characters of s
CountUpTo(s, c, k) == Cardinality({i \in 1..k : s[i] = c})

\* the braces never close more than was opened and close all of it, and the
\* dollars come in pairs
BalancedText(s) ==
  /\ \A k \in 1..Len(s) : CountUpTo(s, "{", k) >= CountUpTo(s, "}", k)
  /\ CountUpTo(s, "{", Len(s)) = CountUpTo(s, "}", Len(s))
  /\ CountUpTo(s, "$", Len(s)) % 2 = 0

\* C16: the syntax check accepts a text exactly when, read left to right, the
\* count of '{' minus '}' never becomes negative and ends at zero and the number
\* of '$' is even; "x^2" and "$x+y$" are accepted, "x^2}", "{x^2" and "$x+y" are
\* rejected
C16_CountingScan ==
  SyntaxReturned =>
    /\ outcome[1] <=> BalancedText(arg[1])
    /\ arg[1] \in {<<"x", "^", "2">>, <<"$", "x", "+", "y", "$">>} => outcome[1]
    /\ arg[1] \in {<<"x", "^", "2", "}">>, <<"{", "x", "^", "2">>,
                   <<"$", "x", "+", "y">>} => ~outcome[1]

\* a text whose braces and dollars interleave is accepted: the two counts are
\* independent
W_C16_InterleavedAccepted ==
  /\ SyntaxReturned
  /\ arg[1] = <<"{", "$", "}", "$">>
  /\ outcome[1] = TRUE

----------------------------------------------------------------------------
(* Claims about the enhancement of a recognized document *)

\* recognize_document has returned its result to recognize_content
DocumentDispatched ==
  /\ entry \in EngineEntries
  /\ pc = "postvalidate"
  /\ detected_type = Some("Document")

\* the document the client returned and the document after the enhancement
RemoteDocument == clientResult[1].v.content.doc[1]

EnhancedDocument == result[1].content.doc[1]

\* "Detected {} formula regions and {} text regions" for the image's layout
RegionSummary ==
  <<"D", "e", "t", "e", "c", "t", "e", "d", " ">> \o Dec(image.nFormula)
    \o <<" ", "f", "o", "r", "m", "u", "l", "a", " ", "r", "e", "g", "i", "o", "n", "s",
         " ", "a", "n", "d", " ">>
    \o Dec(image.nText)
    \o <<" ", "t", "e", "x", "t", " ", "r", "e", "g", "i", "o", "n", "s">>

\* with sections present: the first one gets the summary if its text is empty,
\* and nothing else changes
ExistingSectionsEnhanced ==
  (DocumentDispatched /\ RemoteDocument.sections # <<>>) =>
    /\ EnhancedDocument.title = RemoteDocument.title
    /\ Len(EnhancedDocument.sections) = Len(RemoteDocument.sections)
    /\ EnhancedDocument.sections[1] =
         IF RemoteDocument.sections[1].text = <<>>
           THEN [RemoteDocument.sections[1] EXCEPT !.text = RegionSummary]
           ELSE RemoteDocument.sections[1]
    /\ \A i \in 2..Len(RemoteDocument.sections) :
         EnhancedDocument.sections[i] = RemoteDocument.sections[i]

\* C17 as stated: for a remote Document without sections a placeholder section
\* is created whose body text is the summary of the region counts; with sections
\* present the first one gets the summary if its text is empty, and no other
\* section changes
CE_C17_PlaceholderHoldsSummary ==
  /\ (DocumentDispatched /\ RemoteDocument.sections = <<>>) =>
       /\ Len(EnhancedDocument.sections) = 1
       /\ EnhancedDocument.sections[1].text = RegionSummary
  /\ ExistingSectionsEnhanced

\* C17, amended: for a remote Document without sections a placeholder section
\* is created, without heading or fragments, whose body text is the fixed text
\* "Recognized content"; the summary is not written into it. With sections
\* present the first one gets the summary if its text is empty, and no other
\* section changes
C17_PlaceholderKeepsFixedText ==
  /\ (DocumentDispatched /\ RemoteDocument.sections = <<>>) =>
       /\ EnhancedDocument.title = RemoteDocument.title
       /\ Len(EnhancedDocument.sections) = 1
       /\ EnhancedDocument.sections[1].heading = None
       /\ EnhancedDocument.sections[1].formulas = <<>>
       /\ EnhancedDocument.sections[1].text =
            <<"R", "e", "c", "o", "g", "n", "i", "z", "e", "d", " ",
              "c", "o", "n", "t", "e", "n", "t">>
  /\ ExistingSectionsEnhanced

\* a remote Document without sections, enhanced for an image with two formula
\* regions: one section holding the fixed text
W_C17_PlaceholderCreated ==
  /\ DocumentDispatched
  /\ RemoteDocument.sections = <<>>
  /\ image.nFormula = 2
  /\ Len(EnhancedDocument.sections) = 1
  /\ EnhancedDocument.sections[1].text # RegionSummary

----------------------------------------------------------------------------
(* Claims about analyze_formula *)

AnalyzeFormulaOk ==
  /\ entry = "analyze_formula"
  /\ cpc = "done"
  /\ clientResult[1].tag = "Ok"
  /\ lastOutcome # None
  /\ lastOutcome[1].kind = "ok"

\* the field of the answered body's analysis, None when the body lacks it
AnsweredField(name) ==
  IF AnsweredBody.analysis = <<>> THEN None ELSE AnsweredBody.analysis[1][name]

\* C18 as stated: analyze_formula returns the formula type, description, usage
\* and examples of the service's response; a field present in the response is
\* returned unchanged and the fixed placeholder stands only for a field the
\* response lacks
CE_C18_AnalysisFieldsCarried ==
  AnalyzeFormulaOk =>
    LET res == clientResult[1].v IN
      /\ res.formula_type = IF AnsweredField("formula_type") = None
                              THEN <<"Unknown">>
                              ELSE AnsweredField("formula_type")[1]
      /\ res.description = IF AnsweredField("description") = None
                             THEN <<"No description available">>
                             ELSE AnsweredField("description")[1]
      /\ res.usage = IF AnsweredField("usage") = None
                       THEN <<"No usage information available">>
                       ELSE AnsweredField("usage")[1]
      /\ res.examples = IF AnsweredField("examples") = None
                          THEN <<>>
                          ELSE AnsweredField("examples")[1]

----------------------------------------------------------------------------
(* Claims about calls side by side and update_config *)

InFlight(c) == calls[c].pc \in {"request", "sleep"}

\* every request and every sleep of the call used the configuration and the
\* transport the client had when the call started
UsesStartConfiguration(c) ==
  LET st == calls[c].started[1] IN
    /\ \A i \in 1..Len(calls[c].requests) :
         calls[c].requests[i] =
           [endpoint |-> st.config.endpoint, api_key |-> st.config.api_key,
            timeout_seconds |-> st.config.timeout_seconds, transport |-> st.transport]
    /\ \A i \in 1..Len(calls[c].slept) :
         calls[c].slept[i] = st.config.retry_delay_ms * i
    /\ Len(calls[c].requests) <= st.config.max_retries + 1
    /\ InFlight(c) => (apiConfig = st.config /\ transport = st.transport)

\* the attempts and the result of the call follow from what its own attempts
\* met, whatever the other calls did
DeterminedByOwnAttempts(c) ==
  LET met == calls[c].met
      n == Len(met)
      st == calls[c].started[1]
  IN /\ Len(calls[c].requests) = n
     /\ Len(calls[c].slept) = (IF calls[c].pc = "request" THEN n ELSE n - 1)
     /\ \A i \in 1..(n - 1) : met[i].kind = "timeout"
     /\ calls[c].pc = "done" =>
          /\ n >= 1
          /\ met[n].kind = "ok" =>
               calls[c].result = Some(Ok(new_single_formula(LatexX, 90)))
          /\ met[n].kind = "http" =>
               (calls[c].result[1].tag = "Err" /\ calls[c].result[1].v.kind = "ApiError")
          /\ met[n].kind = "timeout" =>
               /\ n = st.config.max_retries + 1
               /\ calls[c].result = Some(Err(NetworkError(<<"Request timeout">>)))
     /\ calls[c].pc # "done" => calls[c].result = None

\* C19: a configuration update is never visible to a call in flight: every
\* attempt and every backoff sleep of a call uses the endpoint, credential,
\* timeout, retry count and backoff base the client had when the call started,
\* under every interleaving of update_config with the calls; calls side by side
\* on one client do not affect each other's attempts or results
C19_StartConfigurationKept ==
  entry = "shared_client" =>
    \A c \in CallIds :
      calls[c].started # None =>
        (UsesStartConfiguration(c) /\ DeterminedByOwnAttempts(c))

\* call a ran under one configuration, update_config replaced it, and call b,
\* started under the new one, is between its second and third attempt while
\* the client holds the new configuration
W_C19_UpdateBetweenCalls ==
  /\ entry = "shared_client"
  /\ outcome = Some(Ok(<<>>))
  /\ calls["a"].pc = "done"
  /\ Len(calls["a"].requests) = 2
  /\ calls["a"].started[1].config # apiConfig
  /\ calls["b"].pc = "sleep"
  /\ Len(calls["b"].requests) = 2
  /\ calls["b"].started[1].config = apiConfig

----------------------------------------------------------------------------
(* Claims about the formats on offer *)

FormatsReturned == entry = "get_available_formats" /\ pc = "returned"

\* the formats of the returned list, which names none twice
OfferedFormats == {outcome[1][i] : i \in 1..Len(outcome[1])}

InlineAndBlockVariants ==
  {"LaTeXInline", "LaTeXBlock", "MarkdownInline", "MarkdownBlock"}

\* what a Document is offered: the five formats LaTeX, Markdown, HTML, DOCX and
\* plain text, none of them an inline or block variant
DocumentFormatsOffered ==
  (FormatsReturned /\ hint = Some("Document")) =>
    /\ Len(outcome[1]) = 5
    /\ OfferedFormats = {"LaTeX", "Markdown", "HTML", "DOCX", "PlainText"}
    /\ OfferedFormats \cap InlineAndBlockVariants = {}

\* the LaTeX and Markdown variants, HTML and plain text
SingleFormulaFormats ==
  {"LaTeX", "Markdown", "HTML", "PlainText"} \cup InlineAndBlockVariants

\* C20 as stated: a SingleFormula is offered exactly seven formats (the LaTeX and
\* Markdown variants, HTML, plain text), a Document exactly the five formats
\* LaTeX, Markdown, HTML, DOCX and plain text, without inline or block variants
CE_C20_SevenFormats ==
  /\ (FormatsReturned /\ hint = Some("SingleFormula")) =>
       /\ Len(outcome[1]) = 7
       /\ Cardinality(OfferedFormats) = 7
       /\ OfferedFormats \subseteq SingleFormulaFormats
  /\ DocumentFormatsOffered

\* C20, amended: a SingleFormula is offered exactly eight formats (LaTeX,
\* LaTeXInline, LaTeXBlock, Markdown, MarkdownInline, MarkdownBlock, HTML and
\* plain text), a Document exactly the five formats LaTeX, Markdown, HTML, DOCX
\* and plain text, without inline or block variants
C20_EightFormats ==
  /\ (FormatsReturned /\ hint = Some("SingleFormula")) =>
       /\ Len(outcome[1]) = 8
       /\ OfferedFormats = SingleFormulaFormats
  /\ DocumentFormatsOffered

\* the list returned for a SingleFormula: eight formats, DOCX not among them
W_C20_SingleFormulaList ==
  /\ FormatsReturned
  /\ hint = Some("SingleFormula")
  /\ Cardinality(OfferedFormats) = 8
  /\ "DOCX" \notin OfferedFormats

----------------------------------------------------------------------------
(* Claims about the validation of the data model *)

DataValidateReturned(op) == entry = op /\ pc = "returned"

FailsWithApiError == outcome[1].tag = "Err" /\ outcome[1].v.kind = "ApiError"

\* C21: FormulaResult::validate fails with an API error exactly when the latex
\* string is empty or the confidence is below 0.0 or above 1.0 (1.5 and -0.1 are
\* rejected, 0.95 is accepted); DocumentContent::validate fails exactly when the
\* document has no section or a section with neither body text nor fragment
C21_ValidateExactly ==
  /\ DataValidateReturned("FormulaResult::validate") =>
       /\ FailsWithApiError <=>
            (arg[1].latex = <<>> \/ arg[1].confidence < 0 \/ arg[1].confidence > 100)
       /\ ~FailsWithApiError => outcome[1].tag = "Ok"
       /\ arg[1].confidence \in {150, 0 - 10} => FailsWithApiError
       /\ (arg[1].confidence = 95 /\ arg[1].latex # <<>>) => outcome[1].tag = "Ok"
  /\ DataValidateReturned("DocumentContent::validate") =>
       LET sections == arg[1].content.doc[1].sections IN
         /\ FailsWithApiError <=>
              \/ sections = <<>>
              \/ \E i \in 1..Len(sections) :
                   sections[i].text = <<>> /\ sections[i].formulas = <<>>
         /\ ~FailsWithApiError => outcome[1].tag = "Ok"

\* a document whose only section has a fragment and no body text is valid
W_C21_FragmentOnlySectionValid ==
  /\ DataValidateReturned("DocumentContent::validate")
  /\ Len(arg[1].content.doc[1].sections) = 1
  /\ arg[1].content.doc[1].sections[1].text = <<>>
  /\ arg[1].content.doc[1].sections[1].formulas # <<>>
  /\ outcome[1].tag = "Ok"

\* C22: for the inline-forced exports (LaTeX-inline, Markdown-inline) of a
\* document, and every section with two or more fragments at distinct offsets,
\* the export's outcome is the same for every ordering of the section's fragment
\* list, the descending one included
CE_C22_InlineOrderIndependent ==
  (ExportReturned /\ ~ArgSingle
     /\ exportConfig.format \in {"LaTeXInline", "MarkdownInline"}) =>
    \A k \in 1..Len(ArgDocument.sections) :
      LET formulas == ArgDocument.sections[k].formulas IN
        (Len(formulas) >= 2 /\ DistinctOffsets(formulas)) =>
          \A other \in Orderings(formulas) :
            export_formula_result(WithFragments(arg[1], k, other),
                                  exportConfig, appConfig) = outcome[1]

\* the markup a document export in the given format gives a fragment
FragmentMarkup(formula) ==
  CASE exportConfig.format = "LaTeX" -> LatexFormula(formula)
    [] exportConfig.format = "Markdown" ->
         format_formula_for_markdown(formula.latex, formula.is_inline,
                                     appConfig.markdown_formula_format)
    [] exportConfig.format = "HTML" -> HtmlFormula(formula)

\* the number of places of the text where the markup stands
Occurrences(text, markup) ==
  Cardinality({i \in 1..Len(text) :
                 /\ i + Len(markup) - 1 <= Len(text)
                 /\ SubSeq(text, i, i + Len(markup) - 1) = markup})

RECURSIVE SumOccurrences(_, _)
SumOccurrences(text, markups) ==
  IF markups = {} THEN 0
  ELSE LET m == CHOOSE m \in markups : TRUE
       IN Occurrences(text, m) + SumOccurrences(text, markups \ {m})

\* the number of fragment markups in the exported content
RenderedMarkups ==
  LET formulas == AllFormulas(ArgDocument.sections) IN
    SumOccurrences(ExportedContent,
                   {FragmentMarkup(formulas[i]) : i \in 1..Len(formulas)})

DocumentExported ==
  /\ ExportReturned
  /\ ~ArgSingle
  /\ exportConfig.format \in {"LaTeX", "Markdown", "HTML"}
  /\ outcome[1].tag = "Ok"

\* C23: a LaTeX, Markdown or HTML export of a document renders every fragment
\* of every section: the number of fragment markups in the content equals the
\* formula_count of the metadata
CE_C23_EveryFragmentRendered ==
  DocumentExported => RenderedMarkups = outcome[1].v.metadata.formula_count

----------------------------------------------------------------------------
(* Claims about the document-to-single-formula extraction *)

ExtractReturned == entry = "extract_single_formula_from_document" /\ pc = "returned"

ExtractSections == arg[1].content.doc[1].sections

NoFormulaFound == Err(ApiError(<<"No formula found in document">>))

\* the least of a non-empty set of indices
First(indices) == CHOOSE k \in indices : \A j \in indices : k <= j

LooksLikeFormula(text) ==
  StartsWith(Trim(text), <<"$">>) \/ StartsWith(Trim(text), <<"\\", "[">>)

\* C24, as claimed: when some section has a fragment the extraction returns the
\* first fragment of the first such section; otherwise the body, verbatim, of
\* the first section whose body starts with "$" or "\["; otherwise it fails
\* with the API error "No formula found in document"
CE_C24_FragmentsBeforeText ==
  ExtractReturned =>
    LET WithFragment == {k \in 1..Len(ExtractSections) :
                           ExtractSections[k].formulas # <<>>}
        WithFormulaText == {k \in 1..Len(ExtractSections) :
                              \/ StartsWith(ExtractSections[k].text, <<"$">>)
                              \/ StartsWith(ExtractSections[k].text, <<"\\", "[">>)}
    IN outcome[1] =
         IF WithFragment # {}
           THEN Ok(ExtractSections[First(WithFragment)].formulas[1].latex)
         ELSE IF WithFormulaText # {}
           THEN Ok(ExtractSections[First(WithFormulaText)].text)
         ELSE NoFormulaFound

\* C24, amended: the first section, in document order, that has a fragment or
\* whose body, once surrounding white space is removed, starts with "$" or "\["
\* decides: the result is its first fragment when it has fragments and else its
\* body, verbatim; when no section is of either kind the extraction fails with
\* the API error "No formula found in document"
C24_FirstDecisiveSection ==
  ExtractReturned =>
    LET Decisive == {k \in 1..Len(ExtractSections) :
                       \/ ExtractSections[k].formulas # <<>>
                       \/ LooksLikeFormula(ExtractSections[k].text)}
    IN outcome[1] =
         IF Decisive = {} THEN NoFormulaFound
         ELSE IF ExtractSections[First(Decisive)].formulas # <<>>
           THEN Ok(ExtractSections[First(Decisive)].formulas[1].latex)
         ELSE Ok(ExtractSections[First(Decisive)].text)

\* the extraction returned the body of the first section although the second
\* section has a fragment
W_C24_TextBeforeLaterFragment ==
  /\ ExtractReturned
  /\ Len(ExtractSections) = 2
  /\ ExtractSections[1].formulas = <<>>
  /\ ExtractSections[2].formulas # <<>>
  /\ outcome[1] = Ok(ExtractSections[1].text)

----------------------------------------------------------------------------
(* Claims about the completion of an export *)

\* the argument passes FormulaResult::validate and, when it is a document,
\* DocumentContent::validate
ArgPassesDataModel ==
  /\ FormulaResultValidate(arg[1]).tag = "Ok"
  /\ ~ArgSingle => DocumentValidate(ArgDocument).tag = "Ok"

\* C25: for a result that passes the data-model validation, and every export
\* format, export_formula_result returns (an ExportResult or an error); it does
\* not abort while it splices a fragment
CE_C25_ExportNeverAborts ==
  (ExportReturned /\ ArgPassesDataModel) => outcome[1].tag \in {"Ok", "Err"}

----------------------------------------------------------------------------
(* Claims about the end of the retry loop *)

\* the loop of the current call has attempts left
AttemptsRemain == nAttempts <= apiConfig.max_retries

\* C26: a call that ended without a successful attempt while attempts remained
\* ended on an API error; after an attempt that failed with a network error or
\* a serialization error while attempts remain, whatever the text of its
\* message, the loop goes on to its next attempt
C26_OnlyApiErrorEndsEarly ==
  (LastAttemptFailed /\ AttemptsRemain) =>
     /\ (cpc = "done" /\ nOk = 0) => LastAttemptError.kind = "ApiError"
     /\ LastAttemptError.kind \in {"NetworkError", "SerializationError"}
          => cpc \in {"sleep", "request"}

\* the loop goes on after a transport failure and after a malformed body whose
\* texts hold "401"
W_C26_RetriedDespite401Text ==
  /\ LastAttemptFailed
  /\ AttemptsRemain
  /\ lastOutcome[1].kind \in {"transport", "malformed"}
  /\ lastOutcome[1].text = Some(<<"e", "4", "0", "1">>)
  /\ cpc = "sleep"

MaxRetriesExceeded == Err(NetworkError(<<"Max retries exceeded">>))

\* C27: a client call that is over has made at least one request attempt, also
\* with max_retries = 0; when no attempt succeeded it returns the error of its
\* latest attempt, and never the network error "Max retries exceeded"
C27_AtLeastOneAttempt ==
  cpc = "done" =>
    /\ nAttempts >= 1
    /\ nOk = 0 => clientResult = Some(Err(LastAttemptError))
    /\ clientResult # Some(MaxRetriesExceeded)

\* a call with no retries configured that failed on its only attempt
W_C27_NoRetriesOneAttempt ==
  /\ cpc = "done"
  /\ apiConfig.max_retries = 0
  /\ nAttempts = 1
  /\ ClientReturnedErr
  /\ LastAttemptFailed

----------------------------------------------------------------------------
(* Claims about the classification of a returned result *)

\* the classification of the result is the variant of its content, and a
\* single formula's top-level latex is its content
ClassifiedByContent(r) ==
  /\ r.input_type = r.content.kind
  /\ r.content.kind = "SingleFormula" => r.latex = r.content.latex

\* recognize_single_formula has the client's result in hand
SingleFormulaDispatched ==
  /\ entry \in EngineEntries
  /\ pc = "await"
  /\ cpc = "done"
  /\ detected_type = Some("SingleFormula")
  /\ clientResult[1].tag = "Ok"

\* C28: every result recognize_image returns has the requested classification,
\* and every result of recognize_image and of recognize has a classification
\* equal to the variant of its content and, for a single formula, a top-level
\* latex equal to the content; the SingleFormula dispatch never receives
\* Document content, so that it never extracts a formula from a document
C28_ClassificationIsVariant ==
  /\ (cpc = "done" /\ reqType \in InputTypes /\ clientResult[1].tag = "Ok") =>
       /\ clientResult[1].v.input_type = reqType
       /\ ClassifiedByContent(clientResult[1].v)
  /\ (EngineDone /\ outcome[1].tag = "Ok") => ClassifiedByContent(outcome[1].v)
  /\ SingleFormulaDispatched => clientResult[1].v.content.kind = "SingleFormula"

\* a SingleFormula request answered with a body that holds a document: the
\* client's result is a single formula all the same
W_C28_DocumentBodyForSingleFormula ==
  /\ SingleFormulaDispatched
  /\ lastOutcome[1].body[1].content # None
  /\ lastOutcome[1].body[1].content[1].decodes
  /\ clientResult[1].v.content.kind = "SingleFormula"

----------------------------------------------------------------------------
(* Claims about the stored configuration *)

\* the latest call on the manager
LatestConfigCall(name) ==
  entry = "config_manager" /\ trace # <<>> /\ trace[Len(trace)] = name

\* C29: reset_config succeeds and returns the default AppConfig, and a
\* load_config that follows it yields the default AppConfig
CE_C29_ResetStoresDefault ==
  /\ LatestConfigCall("reset_config") =>
       (outcome[1].tag = "Ok" /\ outcome[1].v = DefaultAppConfig)
  /\ (entry = "config_manager" /\ trace = <<"reset_config", "load_config">>) =>
       (outcome[1].tag = "Ok" /\ outcome[1].v = Some(DefaultAppConfig))

----------------------------------------------------------------------------
(* Claims about update_config *)

\* C30: a call of update_config that returns an error leaves the client's
\* configuration and its transport as they were, and a call that succeeds
\* replaces the configuration by the one given and the transport by one built
\* for it; a configuration with an empty endpoint or an empty credential is
\* refused
C30_UpdateAllOrNothing ==
  [][(entry = "shared_client" /\ calls' = calls) =>
       /\ (arg'[1].endpoint = <<>> \/ arg'[1].api_key = <<>>) => outcome'[1].tag = "Err"
       /\ IF outcome'[1].tag = "Ok"
            THEN apiConfig' = arg'[1] /\ transport' = arg'[1].timeout_seconds
            ELSE apiConfig' = apiConfig /\ transport' = transport]_vars

\* an update to another configuration failed on the construction of the
\* transport, and the client still has its configuration and transport
W_C30_FailedBuildKeepsClient ==
  /\ entry = "shared_client"
  /\ outcome # None
  /\ outcome[1].tag = "Err"
  /\ outcome[1].v.kind = "NetworkError"
  /\ arg[1].timeout_seconds # apiConfig.timeout_seconds
  /\ transport = apiConfig.timeout_seconds
====
